---- MODULE Spec2Model ----
(***************************************************************************)
(* Model of .github/actions/jira-rel-scope/main.py: the upsert command of  *)
(* the Jira release-scope action.  A description is a JSON-shaped tree; a  *)
(* run fetches it, decodes the first ADF table, inserts a row keyed by the *)
(* component, rebuilds the table, splices it into the tree and writes the  *)
(* tree back.                                                              *)
(*                                                                         *)
(* Python strings are sequences of one-character strings, so that strip,   *)
(* lower, split, join, int() and str() are computed and not assumed.       *)
(* JSON values are records of one shape (k, keys, vals, s, n):             *)
(*   k = "dict": keys[i] -> vals[i], in insertion order                    *)
(*   k = "list": vals is the list                                          *)
(*   k = "str" : s is the text       k = "int": n is the number            *)
(*   k = "null": None                                                      *)
(***************************************************************************)
EXTENDS Integers, Sequences, FiniteSets, TLC

VARIABLES
    store,           \* the description field of the issue, in the tracker
    issue,           \* its other fields, in the tracker: issuetype, permission, status
    pc,              \* position of the run: idle, validate, fetch, process, put,
                     \* lookup, done (normal return), exit (die or exception)
    command,         \* --command: upsert or lookup
    component,       \* --component
    branch_name,     \* --branch-name
    release_branch,  \* --release-branch
    perm_field,      \* --upsert-permission-field-id is given
    skip_update,     \* SKIP_JIRA_UPDATE is set
    snapshot,        \* `fields` of the processing fetch, without the description
    fetched,         \* the description as the processing fetch returned it
    desc,            \* the object `desc`, which the splice may change in place
    extracted,       \* (headers, rows) as decoded, before the upsert
    headers, rows, has_table,
    result,          \* none, usage_error, crash, schema_mismatch, conflict, added
    old_row, new_row,
    new_table_node, new_desc, final_desc,
    splice_tag,      \* the branch replace_or_append_first_table returned from
    puts,            \* PUT requests issued by the run
    died,            \* the die() call (or "exception") that ended the run, "" if none
    issues,          \* lookup: the tickets the search returned (their descriptions)
    component_found, branch_matches, matching_row,
    lookup_result,   \* lookup: the output lookup_result, "" while not written
    calls,           \* the functions applied so far to an input, oldest first
    values,          \* the input and the value each call returned
    origin,          \* the description before the first run
    log              \* --component of the ended runs that wrote the description
                     \* back, oldest first

\* the state of a run of main
runVars == <<store, issue, pc, command, component, branch_name, release_branch,
             perm_field, skip_update, snapshot, fetched, desc, extracted,
             headers, rows, has_table, result, old_row, new_row,
             new_table_node, new_desc, final_desc, splice_tag, puts, died,
             issues, component_found, branch_matches, matching_row, lookup_result>>

\* the state of calls made to the functions on their own
callVars == <<calls, values>>

\* the history of a sequence of runs on one issue
seqVars == <<origin, log>>

vars == <<runVars, callVars, seqVars>>

(***************************************************************************)
(* Python str operations                                                   *)
(***************************************************************************)

\* A str is a sequence of characters, each a one-character string. A code
\* point that a string literal cannot hold (U+0000, U+0060, U+0130, U+0307,
\* U+2003 are some) is the string "U+" and its hex digits, four at least:
\* <<"U+0130">> is the str of the one character U+0130.
\* The tables below are those of CPython 3.11 (Unicode 14.0.0), over all
\* code points.

\* the ASCII digits, as str() writes them
DigitChars == <<"0","1","2","3","4","5","6","7","8","9">>

\* the characters c with c.isspace(): what strip() trims
WhiteSpace ==
    { "\t", "\n", "", "\f", "\r", "", "", "", "", " ", "", " ", " ",
      "U+2000", "U+2001", "U+2002", "U+2003", "U+2004", "U+2005", "U+2006",
      "U+2007", "U+2008", "U+2009", "U+200A", "U+2028", "U+2029", "U+202F",
      "U+205F", "U+3000" }

IsSpace(c) == c \in WhiteSpace

\* the decimal digits int() accepts, a row for each script: its digits 0 to 9
DigitRows ==
    << <<"0", "1", "2", "3", "4", "5", "6", "7", "8", "9">>,
       <<"U+0660", "U+0661", "U+0662", "U+0663", "U+0664", "U+0665", "U+0666", "U+0667", "U+0668", "U+0669">>,
       <<"۰", "۱", "۲", "۳", "۴", "۵", "۶", "۷", "۸", "۹">>,
       <<"߀", "߁", "߂", "߃", "߄", "߅", "߆", "߇", "߈", "߉">>,
       <<"U+0966", "U+0967", "U+0968", "U+0969", "U+096A", "U+096B", "U+096C", "U+096D", "U+096E", "U+096F">>,
       <<"০", "১", "২", "৩", "৪", "৫", "৬", "৭", "৮", "৯">>,
       <<"U+0A66", "U+0A67", "U+0A68", "U+0A69", "U+0A6A", "U+0A6B", "U+0A6C", "U+0A6D", "U+0A6E", "U+0A6F">>,
       <<"૦", "૧", "૨", "૩", "૪", "૫", "૬", "૭", "૮", "૯">>,
       <<"U+0B66", "U+0B67", "U+0B68", "U+0B69", "U+0B6A", "U+0B6B", "U+0B6C", "U+0B6D", "U+0B6E", "U+0B6F">>,
       <<"௦", "௧", "௨", "௩", "௪", "௫", "௬", "௭", "௮", "௯">>,
       <<"U+0C66", "U+0C67", "U+0C68", "U+0C69", "U+0C6A", "U+0C6B", "U+0C6C", "U+0C6D", "U+0C6E", "U+0C6F">>,
       <<"೦", "೧", "೨", "೩", "೪", "೫", "೬", "೭", "೮", "೯">>,
       <<"U+0D66", "U+0D67", "U+0D68", "U+0D69", "U+0D6A", "U+0D6B", "U+0D6C", "U+0D6D", "U+0D6E", "U+0D6F">>,
       <<"෦", "෧", "෨", "෩", "෪", "෫", "෬", "෭", "෮", "෯">>,
       <<"U+0E50", "U+0E51", "U+0E52", "U+0E53", "U+0E54", "U+0E55", "U+0E56", "U+0E57", "U+0E58", "U+0E59">>,
       <<"໐", "໑", "໒", "໓", "໔", "໕", "໖", "໗", "໘", "໙">>,
       <<"U+0F20", "U+0F21", "U+0F22", "U+0F23", "U+0F24", "U+0F25", "U+0F26", "U+0F27", "U+0F28", "U+0F29">>,
       <<"U+1040", "U+1041", "U+1042", "U+1043", "U+1044", "U+1045", "U+1046", "U+1047", "U+1048", "U+1049">>,
       <<"႐", "႑", "႒", "႓", "႔", "႕", "႖", "႗", "႘", "႙">>,
       <<"០", "១", "២", "៣", "៤", "៥", "៦", "៧", "៨", "៩">>,
       <<"U+1810", "U+1811", "U+1812", "U+1813", "U+1814", "U+1815", "U+1816", "U+1817", "U+1818", "U+1819">>,
       <<"U+1946", "U+1947", "U+1948", "U+1949", "U+194A", "U+194B", "U+194C", "U+194D", "U+194E", "U+194F">>,
       <<"᧐", "᧑", "᧒", "᧓", "᧔", "᧕", "᧖", "᧗", "᧘", "᧙">>,
       <<"᪀", "᪁", "᪂", "᪃", "᪄", "᪅", "᪆", "᪇", "᪈", "᪉">>,
       <<"᪐", "᪑", "᪒", "᪓", "᪔", "᪕", "᪖", "᪗", "᪘", "᪙">>,
       <<"U+1B50", "U+1B51", "U+1B52", "U+1B53", "U+1B54", "U+1B55", "U+1B56", "U+1B57", "U+1B58", "U+1B59">>,
       <<"᮰", "᮱", "᮲", "᮳", "᮴", "᮵", "᮶", "᮷", "᮸", "᮹">>,
       <<"U+1C40", "U+1C41", "U+1C42", "U+1C43", "U+1C44", "U+1C45", "U+1C46", "U+1C47", "U+1C48", "U+1C49">>,
       <<"U+1C50", "U+1C51", "U+1C52", "U+1C53", "U+1C54", "U+1C55", "U+1C56", "U+1C57", "U+1C58", "U+1C59">>,
       <<"U+A620", "U+A621", "U+A622", "U+A623", "U+A624", "U+A625", "U+A626", "U+A627", "U+A628", "U+A629">>,
       <<"꣐", "꣑", "꣒", "꣓", "꣔", "꣕", "꣖", "꣗", "꣘", "꣙">>,
       <<"U+A900", "U+A901", "U+A902", "U+A903", "U+A904", "U+A905", "U+A906", "U+A907", "U+A908", "U+A909">>,
       <<"꧐", "꧑", "꧒", "꧓", "꧔", "꧕", "꧖", "꧗", "꧘", "꧙">>,
       <<"꧰", "꧱", "꧲", "꧳", "꧴", "꧵", "꧶", "꧷", "꧸", "꧹">>,
       <<"U+AA50", "U+AA51", "U+AA52", "U+AA53", "U+AA54", "U+AA55", "U+AA56", "U+AA57", "U+AA58", "U+AA59">>,
       <<"꯰", "꯱", "꯲", "꯳", "꯴", "꯵", "꯶", "꯷", "꯸", "꯹">>,
       <<"U+FF10", "U+FF11", "U+FF12", "U+FF13", "U+FF14", "U+FF15", "U+FF16", "U+FF17", "U+FF18", "U+FF19">>,
       <<"U+104A0", "U+104A1", "U+104A2", "U+104A3", "U+104A4", "U+104A5", "U+104A6", "U+104A7", "U+104A8", "U+104A9">>,
       <<"U+10D30", "U+10D31", "U+10D32", "U+10D33", "U+10D34", "U+10D35", "U+10D36", "U+10D37", "U+10D38", "U+10D39">>,
       <<"U+11066", "U+11067", "U+11068", "U+11069", "U+1106A", "U+1106B", "U+1106C", "U+1106D", "U+1106E", "U+1106F">>,
       <<"U+110F0", "U+110F1", "U+110F2", "U+110F3", "U+110F4", "U+110F5", "U+110F6", "U+110F7", "U+110F8", "U+110F9">>,
       <<"U+11136", "U+11137", "U+11138", "U+11139", "U+1113A", "U+1113B", "U+1113C", "U+1113D", "U+1113E", "U+1113F">>,
       <<"U+111D0", "U+111D1", "U+111D2", "U+111D3", "U+111D4", "U+111D5", "U+111D6", "U+111D7", "U+111D8", "U+111D9">>,
       <<"U+112F0", "U+112F1", "U+112F2", "U+112F3", "U+112F4", "U+112F5", "U+112F6", "U+112F7", "U+112F8", "U+112F9">>,
       <<"U+11450", "U+11451", "U+11452", "U+11453", "U+11454", "U+11455", "U+11456", "U+11457", "U+11458", "U+11459">>,
       <<"U+114D0", "U+114D1", "U+114D2", "U+114D3", "U+114D4", "U+114D5", "U+114D6", "U+114D7", "U+114D8", "U+114D9">>,
       <<"U+11650", "U+11651", "U+11652", "U+11653", "U+11654", "U+11655", "U+11656", "U+11657", "U+11658", "U+11659">>,
       <<"U+116C0", "U+116C1", "U+116C2", "U+116C3", "U+116C4", "U+116C5", "U+116C6", "U+116C7", "U+116C8", "U+116C9">>,
       <<"U+11730", "U+11731", "U+11732", "U+11733", "U+11734", "U+11735", "U+11736", "U+11737", "U+11738", "U+11739">>,
       <<"U+118E0", "U+118E1", "U+118E2", "U+118E3", "U+118E4", "U+118E5", "U+118E6", "U+118E7", "U+118E8", "U+118E9">>,
       <<"U+11950", "U+11951", "U+11952", "U+11953", "U+11954", "U+11955", "U+11956", "U+11957", "U+11958", "U+11959">>,
       <<"U+11C50", "U+11C51", "U+11C52", "U+11C53", "U+11C54", "U+11C55", "U+11C56", "U+11C57", "U+11C58", "U+11C59">>,
       <<"U+11D50", "U+11D51", "U+11D52", "U+11D53", "U+11D54", "U+11D55", "U+11D56", "U+11D57", "U+11D58", "U+11D59">>,
       <<"U+11DA0", "U+11DA1", "U+11DA2", "U+11DA3", "U+11DA4", "U+11DA5", "U+11DA6", "U+11DA7", "U+11DA8", "U+11DA9">>,
       <<"U+16A60", "U+16A61", "U+16A62", "U+16A63", "U+16A64", "U+16A65", "U+16A66", "U+16A67", "U+16A68", "U+16A69">>,
       <<"U+16AC0", "U+16AC1", "U+16AC2", "U+16AC3", "U+16AC4", "U+16AC5", "U+16AC6", "U+16AC7", "U+16AC8", "U+16AC9">>,
       <<"U+16B50", "U+16B51", "U+16B52", "U+16B53", "U+16B54", "U+16B55", "U+16B56", "U+16B57", "U+16B58", "U+16B59">>,
       <<"U+1D7CE", "U+1D7CF", "U+1D7D0", "U+1D7D1", "U+1D7D2", "U+1D7D3", "U+1D7D4", "U+1D7D5", "U+1D7D6", "U+1D7D7">>,
       <<"U+1D7D8", "U+1D7D9", "U+1D7DA", "U+1D7DB", "U+1D7DC", "U+1D7DD", "U+1D7DE", "U+1D7DF", "U+1D7E0", "U+1D7E1">>,
       <<"U+1D7E2", "U+1D7E3", "U+1D7E4", "U+1D7E5", "U+1D7E6", "U+1D7E7", "U+1D7E8", "U+1D7E9", "U+1D7EA", "U+1D7EB">>,
       <<"U+1D7EC", "U+1D7ED", "U+1D7EE", "U+1D7EF", "U+1D7F0", "U+1D7F1", "U+1D7F2", "U+1D7F3", "U+1D7F4", "U+1D7F5">>,
       <<"U+1D7F6", "U+1D7F7", "U+1D7F8", "U+1D7F9", "U+1D7FA", "U+1D7FB", "U+1D7FC", "U+1D7FD", "U+1D7FE", "U+1D7FF">>,
       <<"U+1E140", "U+1E141", "U+1E142", "U+1E143", "U+1E144", "U+1E145", "U+1E146", "U+1E147", "U+1E148", "U+1E149">>,
       <<"U+1E2F0", "U+1E2F1", "U+1E2F2", "U+1E2F3", "U+1E2F4", "U+1E2F5", "U+1E2F6", "U+1E2F7", "U+1E2F8", "U+1E2F9">>,
       <<"U+1E950", "U+1E951", "U+1E952", "U+1E953", "U+1E954", "U+1E955", "U+1E956", "U+1E957", "U+1E958", "U+1E959">>,
       <<"U+1FBF0", "U+1FBF1", "U+1FBF2", "U+1FBF3", "U+1FBF4", "U+1FBF5", "U+1FBF6", "U+1FBF7", "U+1FBF8", "U+1FBF9">> >>

DigitMap ==
    [c \in UNION {{DigitRows[r][i] : i \in 1..10} : r \in DOMAIN DigitRows} |->
        (CHOOSE i \in 1..10 : \E r \in DOMAIN DigitRows : DigitRows[r][i] = c) - 1]

IsDigit(c) == c \in DOMAIN DigitMap

DigitVal(c) == DigitMap[c]

\* <<c, the characters of c.lower()>> for every c that lower() changes
LowerPairs ==
    << <<"A", "a">>, <<"B", "b">>, <<"C", "c">>, <<"D", "d">>, <<"E", "e">>,
       <<"F", "f">>, <<"G", "g">>, <<"H", "h">>, <<"I", "i">>, <<"J", "j">>,
       <<"K", "k">>, <<"L", "l">>, <<"M", "m">>, <<"N", "n">>, <<"O", "o">>,
       <<"P", "p">>, <<"Q", "q">>, <<"R", "r">>, <<"S", "s">>, <<"T", "t">>,
       <<"U", "u">>, <<"V", "v">>, <<"W", "w">>, <<"X", "x">>, <<"Y", "y">>,
       <<"Z", "z">>, <<"À", "à">>, <<"Á", "á">>, <<"Â", "â">>, <<"Ã", "ã">>,
       <<"Ä", "ä">>, <<"Å", "å">>, <<"Æ", "æ">>, <<"Ç", "ç">>, <<"È", "è">>,
       <<"É", "é">>, <<"Ê", "ê">>, <<"Ë", "ë">>, <<"Ì", "ì">>, <<"Í", "í">>,
       <<"Î", "î">>, <<"Ï", "ï">>, <<"Ð", "ð">>, <<"Ñ", "ñ">>, <<"Ò", "ò">>,
       <<"Ó", "ó">>, <<"Ô", "ô">>, <<"Õ", "õ">>, <<"Ö", "ö">>, <<"Ø", "ø">>,
       <<"Ù", "ù">>, <<"Ú", "ú">>, <<"Û", "û">>, <<"Ü", "ü">>, <<"Ý", "ý">>,
       <<"Þ", "þ">>, <<"U+0100", "U+0101">>, <<"U+0102", "U+0103">>,
       <<"U+0104", "U+0105">>, <<"U+0106", "U+0107">>, <<"U+0108", "U+0109">>,
       <<"U+010A", "U+010B">>, <<"U+010C", "U+010D">>, <<"U+010E", "U+010F">>,
       <<"U+0110", "U+0111">>, <<"U+0112", "U+0113">>, <<"U+0114", "U+0115">>,
       <<"U+0116", "U+0117">>, <<"U+0118", "U+0119">>, <<"U+011A", "U+011B">>,
       <<"U+011C", "U+011D">>, <<"U+011E", "U+011F">>, <<"U+0120", "U+0121">>,
       <<"U+0122", "U+0123">>, <<"U+0124", "U+0125">>, <<"U+0126", "U+0127">>,
       <<"U+0128", "U+0129">>, <<"U+012A", "U+012B">>, <<"U+012C", "U+012D">>,
       <<"U+012E", "U+012F">>, <<"U+0130", "i", "U+0307">>,
       <<"U+0132", "U+0133">>, <<"U+0134", "U+0135">>, <<"U+0136", "U+0137">>,
       <<"U+0139", "U+013A">>, <<"U+013B", "U+013C">>, <<"U+013D", "U+013E">>,
       <<"U+013F", "U+0140">>, <<"U+0141", "U+0142">>, <<"U+0143", "U+0144">>,
       <<"U+0145", "U+0146">>, <<"U+0147", "U+0148">>, <<"U+014A", "U+014B">>,
       <<"U+014C", "U+014D">>, <<"U+014E", "U+014F">>, <<"U+0150", "U+0151">>,
       <<"U+0152", "U+0153">>, <<"U+0154", "U+0155">>, <<"U+0156", "U+0157">>,
       <<"U+0158", "U+0159">>, <<"U+015A", "U+015B">>, <<"U+015C", "U+015D">>,
       <<"U+015E", "U+015F">>, <<"U+0160", "U+0161">>, <<"U+0162", "U+0163">>,
       <<"U+0164", "U+0165">>, <<"U+0166", "U+0167">>, <<"U+0168", "U+0169">>,
       <<"U+016A", "U+016B">>, <<"U+016C", "U+016D">>, <<"U+016E", "U+016F">>,
       <<"U+0170", "U+0171">>, <<"U+0172", "U+0173">>, <<"U+0174", "U+0175">>,
       <<"U+0176", "U+0177">>, <<"U+0178", "ÿ">>, <<"U+0179", "U+017A">>,
       <<"U+017B", "U+017C">>, <<"U+017D", "U+017E">>, <<"Ɓ", "U+0253">>,
       <<"Ƃ", "ƃ">>, <<"Ƅ", "ƅ">>, <<"Ɔ", "U+0254">>, <<"Ƈ", "ƈ">>,
       <<"Ɖ", "U+0256">>, <<"Ɗ", "U+0257">>, <<"Ƌ", "ƌ">>, <<"Ǝ", "ǝ">>,
       <<"Ə", "U+0259">>, <<"Ɛ", "U+025B">>, <<"Ƒ", "ƒ">>, <<"Ɠ", "U+0260">>,
       <<"Ɣ", "U+0263">>, <<"Ɩ", "U+0269">>, <<"Ɨ", "U+0268">>, <<"Ƙ", "ƙ">>,
       <<"Ɯ", "U+026F">>, <<"Ɲ", "U+0272">>, <<"Ɵ", "U+0275">>, <<"Ơ", "ơ">>,
       <<"Ƣ", "ƣ">>, <<"Ƥ", "ƥ">>, <<"Ʀ", "ʀ">>, <<"Ƨ", "ƨ">>, <<"Ʃ", "ʃ">>,
       <<"Ƭ", "ƭ">>, <<"Ʈ", "ʈ">>, <<"Ư", "ư">>, <<"Ʊ", "ʊ">>, <<"Ʋ", "ʋ">>,
       <<"Ƴ", "ƴ">>, <<"Ƶ", "ƶ">>, <<"Ʒ", "ʒ">>, <<"Ƹ", "ƹ">>, <<"Ƽ", "ƽ">>,
       <<"Ǆ", "ǆ">>, <<"ǅ", "ǆ">>, <<"Ǉ", "ǉ">>, <<"ǈ", "ǉ">>, <<"Ǌ", "ǌ">>,
       <<"ǋ", "ǌ">>, <<"Ǎ", "ǎ">>, <<"Ǐ", "ǐ">>, <<"Ǒ", "ǒ">>, <<"Ǔ", "ǔ">>,
       <<"Ǖ", "ǖ">>, <<"Ǘ", "ǘ">>, <<"Ǚ", "ǚ">>, <<"Ǜ", "ǜ">>, <<"Ǟ", "ǟ">>,
       <<"Ǡ", "ǡ">>, <<"Ǣ", "ǣ">>, <<"Ǥ", "ǥ">>, <<"Ǧ", "ǧ">>, <<"Ǩ", "ǩ">>,
       <<"Ǫ", "ǫ">>, <<"Ǭ", "ǭ">>, <<"Ǯ", "ǯ">>, <<"Ǳ", "ǳ">>, <<"ǲ", "ǳ">>,
       <<"Ǵ", "ǵ">>, <<"Ƕ", "ƕ">>, <<"Ƿ", "ƿ">>, <<"Ǹ", "ǹ">>, <<"Ǻ", "ǻ">>,
       <<"Ǽ", "ǽ">>, <<"Ǿ", "ǿ">>, <<"U+0200", "U+0201">>,
       <<"U+0202", "U+0203">>, <<"U+0204", "U+0205">>, <<"U+0206", "U+0207">>,
       <<"U+0208", "U+0209">>, <<"U+020A", "U+020B">>, <<"U+020C", "U+020D">>,
       <<"U+020E", "U+020F">>, <<"U+0210", "U+0211">>, <<"U+0212", "U+0213">>,
       <<"U+0214", "U+0215">>, <<"U+0216", "U+0217">>, <<"U+0218", "U+0219">>,
       <<"U+021A", "U+021B">>, <<"U+021C", "U+021D">>, <<"U+021E", "U+021F">>,
       <<"U+0220", "ƞ">>, <<"U+0222", "U+0223">>, <<"U+0224", "U+0225">>,
       <<"U+0226", "U+0227">>, <<"U+0228", "U+0229">>, <<"U+022A", "U+022B">>,
       <<"U+022C", "U+022D">>, <<"U+022E", "U+022F">>, <<"U+0230", "U+0231">>,
       <<"U+0232", "U+0233">>, <<"U+023A", "U+2C65">>, <<"U+023B", "U+023C">>,
       <<"U+023D", "ƚ">>, <<"U+023E", "U+2C66">>, <<"U+0241", "U+0242">>,
       <<"U+0243", "ƀ">>, <<"U+0244", "ʉ">>, <<"U+0245", "ʌ">>,
       <<"U+0246", "U+0247">>, <<"U+0248", "U+0249">>, <<"U+024A", "U+024B">>,
       <<"U+024C", "U+024D">>, <<"U+024E", "U+024F">>, <<"U+0370", "U+0371">>,
       <<"U+0372", "U+0373">>, <<"U+0376", "U+0377">>, <<"U+037F", "ϳ">>,
       <<"Ά", "ά">>, <<"Έ", "έ">>, <<"Ή", "ή">>, <<"Ί", "ί">>, <<"Ό", "ό">>,
       <<"Ύ", "ύ">>, <<"Ώ", "ώ">>, <<"Α", "α">>, <<"Β", "β">>, <<"Γ", "γ">>,
       <<"Δ", "δ">>, <<"Ε", "ε">>, <<"Ζ", "ζ">>, <<"Η", "η">>, <<"Θ", "θ">>,
       <<"Ι", "ι">>, <<"Κ", "κ">>, <<"Λ", "λ">>, <<"Μ", "μ">>, <<"Ν", "ν">>,
       <<"Ξ", "ξ">>, <<"Ο", "ο">>, <<"Π", "π">>, <<"Ρ", "ρ">>, <<"Σ", "σ">>,
       <<"Τ", "τ">>, <<"Υ", "υ">>, <<"Φ", "φ">>, <<"Χ", "χ">>, <<"Ψ", "ψ">>,
       <<"Ω", "ω">>, <<"Ϊ", "ϊ">>, <<"Ϋ", "ϋ">>, <<"Ϗ", "ϗ">>, <<"Ϙ", "ϙ">>,
       <<"Ϛ", "ϛ">>, <<"Ϝ", "ϝ">>, <<"Ϟ", "ϟ">>, <<"Ϡ", "ϡ">>, <<"Ϣ", "ϣ">>,
       <<"Ϥ", "ϥ">>, <<"Ϧ", "ϧ">>, <<"Ϩ", "ϩ">>, <<"Ϫ", "ϫ">>, <<"Ϭ", "ϭ">>,
       <<"Ϯ", "ϯ">>, <<"ϴ", "θ">>, <<"Ϸ", "ϸ">>, <<"Ϲ", "ϲ">>, <<"Ϻ", "ϻ">>,
       <<"Ͻ", "U+037B">>, <<"Ͼ", "U+037C">>, <<"Ͽ", "U+037D">>,
       <<"U+0400", "U+0450">>, <<"U+0401", "U+0451">>, <<"U+0402", "U+0452">>,
       <<"U+0403", "U+0453">>, <<"U+0404", "U+0454">>, <<"U+0405", "U+0455">>,
       <<"U+0406", "U+0456">>, <<"U+0407", "U+0457">>, <<"U+0408", "U+0458">>,
       <<"U+0409", "U+0459">>, <<"U+040A", "U+045A">>, <<"U+040B", "U+045B">>,
       <<"U+040C", "U+045C">>, <<"U+040D", "U+045D">>, <<"U+040E", "U+045E">>,
       <<"U+040F", "U+045F">>, <<"U+0410", "U+0430">>, <<"U+0411", "U+0431">>,
       <<"U+0412", "U+0432">>, <<"U+0413", "U+0433">>, <<"U+0414", "U+0434">>,
       <<"U+0415", "U+0435">>, <<"U+0416", "U+0436">>, <<"U+0417", "U+0437">>,
       <<"U+0418", "U+0438">>, <<"U+0419", "U+0439">>, <<"U+041A", "U+043A">>,
       <<"U+041B", "U+043B">>, <<"U+041C", "U+043C">>, <<"U+041D", "U+043D">>,
       <<"U+041E", "U+043E">>, <<"U+041F", "U+043F">>, <<"U+0420", "U+0440">>,
       <<"U+0421", "U+0441">>, <<"U+0422", "U+0442">>, <<"U+0423", "U+0443">>,
       <<"U+0424", "U+0444">>, <<"U+0425", "U+0445">>, <<"U+0426", "U+0446">>,
       <<"U+0427", "U+0447">>, <<"U+0428", "U+0448">>, <<"U+0429", "U+0449">>,
       <<"U+042A", "U+044A">>, <<"U+042B", "U+044B">>, <<"U+042C", "U+044C">>,
       <<"U+042D", "U+044D">>, <<"U+042E", "U+044E">>, <<"U+042F", "U+044F">>,
       <<"U+0460", "U+0461">>, <<"U+0462", "U+0463">>, <<"U+0464", "U+0465">>,
       <<"U+0466", "U+0467">>, <<"U+0468", "U+0469">>, <<"U+046A", "U+046B">>,
       <<"U+046C", "U+046D">>, <<"U+046E", "U+046F">>, <<"U+0470", "U+0471">>,
       <<"U+0472", "U+0473">>, <<"U+0474", "U+0475">>, <<"U+0476", "U+0477">>,
       <<"U+0478", "U+0479">>, <<"U+047A", "U+047B">>, <<"U+047C", "U+047D">>,
       <<"U+047E", "U+047F">>, <<"Ҁ", "ҁ">>, <<"Ҋ", "ҋ">>, <<"Ҍ", "ҍ">>,
       <<"Ҏ", "ҏ">>, <<"Ґ", "ґ">>, <<"Ғ", "ғ">>, <<"Ҕ", "ҕ">>, <<"Җ", "җ">>,
       <<"Ҙ", "ҙ">>, <<"Қ", "қ">>, <<"Ҝ", "ҝ">>, <<"Ҟ", "ҟ">>, <<"Ҡ", "ҡ">>,
       <<"Ң", "ң">>, <<"Ҥ", "ҥ">>, <<"Ҧ", "ҧ">>, <<"Ҩ", "ҩ">>, <<"Ҫ", "ҫ">>,
       <<"Ҭ", "ҭ">>, <<"Ү", "ү">>, <<"Ұ", "ұ">>, <<"Ҳ", "ҳ">>, <<"Ҵ", "ҵ">>,
       <<"Ҷ", "ҷ">>, <<"Ҹ", "ҹ">>, <<"Һ", "һ">>, <<"Ҽ", "ҽ">>, <<"Ҿ", "ҿ">>,
       <<"Ӏ", "ӏ">>, <<"Ӂ", "ӂ">>, <<"Ӄ", "ӄ">>, <<"Ӆ", "ӆ">>, <<"Ӈ", "ӈ">>,
       <<"Ӊ", "ӊ">>, <<"Ӌ", "ӌ">>, <<"Ӎ", "ӎ">>, <<"Ӑ", "ӑ">>, <<"Ӓ", "ӓ">>,
       <<"Ӕ", "ӕ">>, <<"Ӗ", "ӗ">>, <<"Ә", "ә">>, <<"Ӛ", "ӛ">>, <<"Ӝ", "ӝ">>,
       <<"Ӟ", "ӟ">>, <<"Ӡ", "ӡ">>, <<"Ӣ", "ӣ">>, <<"Ӥ", "ӥ">>, <<"Ӧ", "ӧ">>,
       <<"Ө", "ө">>, <<"Ӫ", "ӫ">>, <<"Ӭ", "ӭ">>, <<"Ӯ", "ӯ">>, <<"Ӱ", "ӱ">>,
       <<"Ӳ", "ӳ">>, <<"Ӵ", "ӵ">>, <<"Ӷ", "ӷ">>, <<"Ӹ", "ӹ">>, <<"Ӻ", "ӻ">>,
       <<"Ӽ", "ӽ">>, <<"Ӿ", "ӿ">>, <<"U+0500", "U+0501">>,
       <<"U+0502", "U+0503">>, <<"U+0504", "U+0505">>, <<"U+0506", "U+0507">>,
       <<"U+0508", "U+0509">>, <<"U+050A", "U+050B">>, <<"U+050C", "U+050D">>,
       <<"U+050E", "U+050F">>, <<"U+0510", "U+0511">>, <<"U+0512", "U+0513">>,
       <<"U+0514", "U+0515">>, <<"U+0516", "U+0517">>, <<"U+0518", "U+0519">>,
       <<"U+051A", "U+051B">>, <<"U+051C", "U+051D">>, <<"U+051E", "U+051F">>,
       <<"U+0520", "U+0521">>, <<"U+0522", "U+0523">>, <<"U+0524", "U+0525">>,
       <<"U+0526", "U+0527">>, <<"U+0528", "U+0529">>, <<"U+052A", "U+052B">>,
       <<"U+052C", "U+052D">>, <<"U+052E", "U+052F">>, <<"U+0531", "U+0561">>,
       <<"U+0532", "U+0562">>, <<"U+0533", "U+0563">>, <<"U+0534", "U+0564">>,
       <<"U+0535", "U+0565">>, <<"U+0536", "U+0566">>, <<"U+0537", "U+0567">>,
       <<"U+0538", "U+0568">>, <<"U+0539", "U+0569">>, <<"U+053A", "U+056A">>,
       <<"U+053B", "U+056B">>, <<"U+053C", "U+056C">>, <<"U+053D", "U+056D">>,
       <<"U+053E", "U+056E">>, <<"U+053F", "U+056F">>, <<"U+0540", "U+0570">>,
       <<"U+0541", "U+0571">>, <<"U+0542", "U+0572">>, <<"U+0543", "U+0573">>,
       <<"U+0544", "U+0574">>, <<"U+0545", "U+0575">>, <<"U+0546", "U+0576">>,
       <<"U+0547", "U+0577">>, <<"U+0548", "U+0578">>, <<"U+0549", "U+0579">>,
       <<"U+054A", "U+057A">>, <<"U+054B", "U+057B">>, <<"U+054C", "U+057C">>,
       <<"U+054D", "U+057D">>, <<"U+054E", "U+057E">>, <<"U+054F", "U+057F">>,
       <<"U+0550", "ր">>, <<"U+0551", "ց">>, <<"U+0552", "ւ">>,
       <<"U+0553", "փ">>, <<"U+0554", "ք">>, <<"U+0555", "օ">>,
       <<"U+0556", "ֆ">>, <<"Ⴀ", "U+2D00">>, <<"Ⴁ", "U+2D01">>,
       <<"Ⴂ", "U+2D02">>, <<"Ⴃ", "U+2D03">>, <<"Ⴄ", "U+2D04">>,
       <<"Ⴅ", "U+2D05">>, <<"Ⴆ", "U+2D06">>, <<"Ⴇ", "U+2D07">>,
       <<"Ⴈ", "U+2D08">>, <<"Ⴉ", "U+2D09">>, <<"Ⴊ", "U+2D0A">>,
       <<"Ⴋ", "U+2D0B">>, <<"Ⴌ", "U+2D0C">>, <<"Ⴍ", "U+2D0D">>,
       <<"Ⴎ", "U+2D0E">>, <<"Ⴏ", "U+2D0F">>, <<"Ⴐ", "U+2D10">>,
       <<"Ⴑ", "U+2D11">>, <<"Ⴒ", "U+2D12">>, <<"Ⴓ", "U+2D13">>,
       <<"Ⴔ", "U+2D14">>, <<"Ⴕ", "U+2D15">>, <<"Ⴖ", "U+2D16">>,
       <<"Ⴗ", "U+2D17">>, <<"Ⴘ", "U+2D18">>, <<"Ⴙ", "U+2D19">>,
       <<"Ⴚ", "U+2D1A">>, <<"Ⴛ", "U+2D1B">>, <<"Ⴜ", "U+2D1C">>,
       <<"Ⴝ", "U+2D1D">>, <<"Ⴞ", "U+2D1E">>, <<"Ⴟ", "U+2D1F">>,
       <<"Ⴠ", "U+2D20">>, <<"Ⴡ", "U+2D21">>, <<"Ⴢ", "U+2D22">>,
       <<"Ⴣ", "U+2D23">>, <<"Ⴤ", "U+2D24">>, <<"Ⴥ", "U+2D25">>,
       <<"Ⴧ", "U+2D27">>, <<"Ⴭ", "U+2D2D">>, <<"Ꭰ", "U+AB70">>,
       <<"Ꭱ", "U+AB71">>, <<"Ꭲ", "U+AB72">>, <<"Ꭳ", "U+AB73">>,
       <<"Ꭴ", "U+AB74">>, <<"Ꭵ", "U+AB75">>, <<"Ꭶ", "U+AB76">>,
       <<"Ꭷ", "U+AB77">>, <<"Ꭸ", "U+AB78">>, <<"Ꭹ", "U+AB79">>,
       <<"Ꭺ", "U+AB7A">>, <<"Ꭻ", "U+AB7B">>, <<"Ꭼ", "U+AB7C">>,
       <<"Ꭽ", "U+AB7D">>, <<"Ꭾ", "U+AB7E">>, <<"Ꭿ", "U+AB7F">>, <<"Ꮀ", "ꮀ">>,
       <<"Ꮁ", "ꮁ">>, <<"Ꮂ", "ꮂ">>, <<"Ꮃ", "ꮃ">>, <<"Ꮄ", "ꮄ">>, <<"Ꮅ", "ꮅ">>,
       <<"Ꮆ", "ꮆ">>, <<"Ꮇ", "ꮇ">>, <<"Ꮈ", "ꮈ">>, <<"Ꮉ", "ꮉ">>, <<"Ꮊ", "ꮊ">>,
       <<"Ꮋ", "ꮋ">>, <<"Ꮌ", "ꮌ">>, <<"Ꮍ", "ꮍ">>, <<"Ꮎ", "ꮎ">>, <<"Ꮏ", "ꮏ">>,
       <<"Ꮐ", "ꮐ">>, <<"Ꮑ", "ꮑ">>, <<"Ꮒ", "ꮒ">>, <<"Ꮓ", "ꮓ">>, <<"Ꮔ", "ꮔ">>,
       <<"Ꮕ", "ꮕ">>, <<"Ꮖ", "ꮖ">>, <<"Ꮗ", "ꮗ">>, <<"Ꮘ", "ꮘ">>, <<"Ꮙ", "ꮙ">>,
       <<"Ꮚ", "ꮚ">>, <<"Ꮛ", "ꮛ">>, <<"Ꮜ", "ꮜ">>, <<"Ꮝ", "ꮝ">>, <<"Ꮞ", "ꮞ">>,
       <<"Ꮟ", "ꮟ">>, <<"Ꮠ", "ꮠ">>, <<"Ꮡ", "ꮡ">>, <<"Ꮢ", "ꮢ">>, <<"Ꮣ", "ꮣ">>,
       <<"Ꮤ", "ꮤ">>, <<"Ꮥ", "ꮥ">>, <<"Ꮦ", "ꮦ">>, <<"Ꮧ", "ꮧ">>, <<"Ꮨ", "ꮨ">>,
       <<"Ꮩ", "ꮩ">>, <<"Ꮪ", "ꮪ">>, <<"Ꮫ", "ꮫ">>, <<"Ꮬ", "ꮬ">>, <<"Ꮭ", "ꮭ">>,
       <<"Ꮮ", "ꮮ">>, <<"Ꮯ", "ꮯ">>, <<"Ꮰ", "ꮰ">>, <<"Ꮱ", "ꮱ">>, <<"Ꮲ", "ꮲ">>,
       <<"Ꮳ", "ꮳ">>, <<"Ꮴ", "ꮴ">>, <<"Ꮵ", "ꮵ">>, <<"Ꮶ", "ꮶ">>, <<"Ꮷ", "ꮷ">>,
       <<"Ꮸ", "ꮸ">>, <<"Ꮹ", "ꮹ">>, <<"Ꮺ", "ꮺ">>, <<"Ꮻ", "ꮻ">>, <<"Ꮼ", "ꮼ">>,
       <<"Ꮽ", "ꮽ">>, <<"Ꮾ", "ꮾ">>, <<"Ꮿ", "ꮿ">>, <<"Ᏸ", "ᏸ">>, <<"Ᏹ", "ᏹ">>,
       <<"Ᏺ", "ᏺ">>, <<"Ᏻ", "ᏻ">>, <<"Ᏼ", "ᏼ">>, <<"Ᏽ", "ᏽ">>, <<"Ა", "ა">>,
       <<"Ბ", "ბ">>, <<"Გ", "გ">>, <<"Დ", "დ">>, <<"Ე", "ე">>, <<"Ვ", "ვ">>,
       <<"Ზ", "ზ">>, <<"Თ", "თ">>, <<"Ი", "ი">>, <<"Კ", "კ">>, <<"Ლ", "ლ">>,
       <<"Მ", "მ">>, <<"Ნ", "ნ">>, <<"Ო", "ო">>, <<"Პ", "პ">>, <<"Ჟ", "ჟ">>,
       <<"Რ", "რ">>, <<"Ს", "ს">>, <<"Ტ", "ტ">>, <<"Უ", "უ">>, <<"Ფ", "ფ">>,
       <<"Ქ", "ქ">>, <<"Ღ", "ღ">>, <<"Ყ", "ყ">>, <<"Შ", "შ">>, <<"Ჩ", "ჩ">>,
       <<"Ც", "ც">>, <<"Ძ", "ძ">>, <<"Წ", "წ">>, <<"Ჭ", "ჭ">>, <<"Ხ", "ხ">>,
       <<"Ჯ", "ჯ">>, <<"Ჰ", "ჰ">>, <<"Ჱ", "ჱ">>, <<"Ჲ", "ჲ">>, <<"Ჳ", "ჳ">>,
       <<"Ჴ", "ჴ">>, <<"Ჵ", "ჵ">>, <<"Ჶ", "ჶ">>, <<"Ჷ", "ჷ">>, <<"Ჸ", "ჸ">>,
       <<"Ჹ", "ჹ">>, <<"Ჺ", "ჺ">>, <<"Ჽ", "ჽ">>, <<"Ჾ", "ჾ">>, <<"Ჿ", "ჿ">>,
       <<"U+1E00", "U+1E01">>, <<"U+1E02", "U+1E03">>, <<"U+1E04", "U+1E05">>,
       <<"U+1E06", "U+1E07">>, <<"U+1E08", "U+1E09">>, <<"U+1E0A", "U+1E0B">>,
       <<"U+1E0C", "U+1E0D">>, <<"U+1E0E", "U+1E0F">>, <<"U+1E10", "U+1E11">>,
       <<"U+1E12", "U+1E13">>, <<"U+1E14", "U+1E15">>, <<"U+1E16", "U+1E17">>,
       <<"U+1E18", "U+1E19">>, <<"U+1E1A", "U+1E1B">>, <<"U+1E1C", "U+1E1D">>,
       <<"U+1E1E", "U+1E1F">>, <<"U+1E20", "U+1E21">>, <<"U+1E22", "U+1E23">>,
       <<"U+1E24", "U+1E25">>, <<"U+1E26", "U+1E27">>, <<"U+1E28", "U+1E29">>,
       <<"U+1E2A", "U+1E2B">>, <<"U+1E2C", "U+1E2D">>, <<"U+1E2E", "U+1E2F">>,
       <<"U+1E30", "U+1E31">>, <<"U+1E32", "U+1E33">>, <<"U+1E34", "U+1E35">>,
       <<"U+1E36", "U+1E37">>, <<"U+1E38", "U+1E39">>, <<"U+1E3A", "U+1E3B">>,
       <<"U+1E3C", "U+1E3D">>, <<"U+1E3E", "U+1E3F">>, <<"U+1E40", "U+1E41">>,
       <<"U+1E42", "U+1E43">>, <<"U+1E44", "U+1E45">>, <<"U+1E46", "U+1E47">>,
       <<"U+1E48", "U+1E49">>, <<"U+1E4A", "U+1E4B">>, <<"U+1E4C", "U+1E4D">>,
       <<"U+1E4E", "U+1E4F">>, <<"U+1E50", "U+1E51">>, <<"U+1E52", "U+1E53">>,
       <<"U+1E54", "U+1E55">>, <<"U+1E56", "U+1E57">>, <<"U+1E58", "U+1E59">>,
       <<"U+1E5A", "U+1E5B">>, <<"U+1E5C", "U+1E5D">>, <<"U+1E5E", "U+1E5F">>,
       <<"U+1E60", "U+1E61">>, <<"U+1E62", "U+1E63">>, <<"U+1E64", "U+1E65">>,
       <<"U+1E66", "U+1E67">>, <<"U+1E68", "U+1E69">>, <<"U+1E6A", "U+1E6B">>,
       <<"U+1E6C", "U+1E6D">>, <<"U+1E6E", "U+1E6F">>, <<"U+1E70", "U+1E71">>,
       <<"U+1E72", "U+1E73">>, <<"U+1E74", "U+1E75">>, <<"U+1E76", "U+1E77">>,
       <<"U+1E78", "U+1E79">>, <<"U+1E7A", "U+1E7B">>, <<"U+1E7C", "U+1E7D">>,
       <<"U+1E7E", "U+1E7F">>, <<"Ẁ", "ẁ">>, <<"Ẃ", "ẃ">>, <<"Ẅ", "ẅ">>,
       <<"Ẇ", "ẇ">>, <<"Ẉ", "ẉ">>, <<"Ẋ", "ẋ">>, <<"Ẍ", "ẍ">>, <<"Ẏ", "ẏ">>,
       <<"Ẑ", "ẑ">>, <<"Ẓ", "ẓ">>, <<"Ẕ", "ẕ">>, <<"ẞ", "ß">>, <<"Ạ", "ạ">>,
       <<"Ả", "ả">>, <<"Ấ", "ấ">>, <<"Ầ", "ầ">>, <<"Ẩ", "ẩ">>, <<"Ẫ", "ẫ">>,
       <<"Ậ", "ậ">>, <<"Ắ", "ắ">>, <<"Ằ", "ằ">>, <<"Ẳ", "ẳ">>, <<"Ẵ", "ẵ">>,
       <<"Ặ", "ặ">>, <<"Ẹ", "ẹ">>, <<"Ẻ", "ẻ">>, <<"Ẽ", "ẽ">>, <<"Ế", "ế">>,
       <<"Ề", "ề">>, <<"Ể", "ể">>, <<"Ễ", "ễ">>, <<"Ệ", "ệ">>, <<"Ỉ", "ỉ">>,
       <<"Ị", "ị">>, <<"Ọ", "ọ">>, <<"Ỏ", "ỏ">>, <<"Ố", "ố">>, <<"Ồ", "ồ">>,
       <<"Ổ", "ổ">>, <<"Ỗ", "ỗ">>, <<"Ộ", "ộ">>, <<"Ớ", "ớ">>, <<"Ờ", "ờ">>,
       <<"Ở", "ở">>, <<"Ỡ", "ỡ">>, <<"Ợ", "ợ">>, <<"Ụ", "ụ">>, <<"Ủ", "ủ">>,
       <<"Ứ", "ứ">>, <<"Ừ", "ừ">>, <<"Ử", "ử">>, <<"Ữ", "ữ">>, <<"Ự", "ự">>,
       <<"Ỳ", "ỳ">>, <<"Ỵ", "ỵ">>, <<"Ỷ", "ỷ">>, <<"Ỹ", "ỹ">>, <<"Ỻ", "ỻ">>,
       <<"Ỽ", "ỽ">>, <<"Ỿ", "ỿ">>, <<"U+1F08", "U+1F00">>,
       <<"U+1F09", "U+1F01">>, <<"U+1F0A", "U+1F02">>, <<"U+1F0B", "U+1F03">>,
       <<"U+1F0C", "U+1F04">>, <<"U+1F0D", "U+1F05">>, <<"U+1F0E", "U+1F06">>,
       <<"U+1F0F", "U+1F07">>, <<"U+1F18", "U+1F10">>, <<"U+1F19", "U+1F11">>,
       <<"U+1F1A", "U+1F12">>, <<"U+1F1B", "U+1F13">>, <<"U+1F1C", "U+1F14">>,
       <<"U+1F1D", "U+1F15">>, <<"U+1F28", "U+1F20">>, <<"U+1F29", "U+1F21">>,
       <<"U+1F2A", "U+1F22">>, <<"U+1F2B", "U+1F23">>, <<"U+1F2C", "U+1F24">>,
       <<"U+1F2D", "U+1F25">>, <<"U+1F2E", "U+1F26">>, <<"U+1F2F", "U+1F27">>,
       <<"U+1F38", "U+1F30">>, <<"U+1F39", "U+1F31">>, <<"U+1F3A", "U+1F32">>,
       <<"U+1F3B", "U+1F33">>, <<"U+1F3C", "U+1F34">>, <<"U+1F3D", "U+1F35">>,
       <<"U+1F3E", "U+1F36">>, <<"U+1F3F", "U+1F37">>, <<"U+1F48", "U+1F40">>,
       <<"U+1F49", "U+1F41">>, <<"U+1F4A", "U+1F42">>, <<"U+1F4B", "U+1F43">>,
       <<"U+1F4C", "U+1F44">>, <<"U+1F4D", "U+1F45">>, <<"U+1F59", "U+1F51">>,
       <<"U+1F5B", "U+1F53">>, <<"U+1F5D", "U+1F55">>, <<"U+1F5F", "U+1F57">>,
       <<"U+1F68", "U+1F60">>, <<"U+1F69", "U+1F61">>, <<"U+1F6A", "U+1F62">>,
       <<"U+1F6B", "U+1F63">>, <<"U+1F6C", "U+1F64">>, <<"U+1F6D", "U+1F65">>,
       <<"U+1F6E", "U+1F66">>, <<"U+1F6F", "U+1F67">>, <<"ᾈ", "ᾀ">>,
       <<"ᾉ", "ᾁ">>, <<"ᾊ", "ᾂ">>, <<"ᾋ", "ᾃ">>, <<"ᾌ", "ᾄ">>, <<"ᾍ", "ᾅ">>,
       <<"ᾎ", "ᾆ">>, <<"ᾏ", "ᾇ">>, <<"ᾘ", "ᾐ">>, <<"ᾙ", "ᾑ">>, <<"ᾚ", "ᾒ">>,
       <<"ᾛ", "ᾓ">>, <<"ᾜ", "ᾔ">>, <<"ᾝ", "ᾕ">>, <<"ᾞ", "ᾖ">>, <<"ᾟ", "ᾗ">>,
       <<"ᾨ", "ᾠ">>, <<"ᾩ", "ᾡ">>, <<"ᾪ", "ᾢ">>, <<"ᾫ", "ᾣ">>, <<"ᾬ", "ᾤ">>,
       <<"ᾭ", "ᾥ">>, <<"ᾮ", "ᾦ">>, <<"ᾯ", "ᾧ">>, <<"Ᾰ", "ᾰ">>, <<"Ᾱ", "ᾱ">>,
       <<"Ὰ", "U+1F70">>, <<"Ά", "U+1F71">>, <<"ᾼ", "ᾳ">>, <<"Ὲ", "U+1F72">>,
       <<"Έ", "U+1F73">>, <<"Ὴ", "U+1F74">>, <<"Ή", "U+1F75">>, <<"ῌ", "ῃ">>,
       <<"Ῐ", "ῐ">>, <<"Ῑ", "ῑ">>, <<"Ὶ", "U+1F76">>, <<"Ί", "U+1F77">>,
       <<"Ῠ", "ῠ">>, <<"Ῡ", "ῡ">>, <<"Ὺ", "U+1F7A">>, <<"Ύ", "U+1F7B">>,
       <<"Ῥ", "ῥ">>, <<"Ὸ", "U+1F78">>, <<"Ό", "U+1F79">>, <<"Ὼ", "U+1F7C">>,
       <<"Ώ", "U+1F7D">>, <<"ῼ", "ῳ">>, <<"U+2126", "ω">>, <<"U+212A", "k">>,
       <<"U+212B", "å">>, <<"U+2132", "U+214E">>, <<"U+2160", "U+2170">>,
       <<"U+2161", "U+2171">>, <<"U+2162", "U+2172">>, <<"U+2163", "U+2173">>,
       <<"U+2164", "U+2174">>, <<"U+2165", "U+2175">>, <<"U+2166", "U+2176">>,
       <<"U+2167", "U+2177">>, <<"U+2168", "U+2178">>, <<"U+2169", "U+2179">>,
       <<"U+216A", "U+217A">>, <<"U+216B", "U+217B">>, <<"U+216C", "U+217C">>,
       <<"U+216D", "U+217D">>, <<"U+216E", "U+217E">>, <<"U+216F", "U+217F">>,
       <<"Ↄ", "ↄ">>, <<"Ⓐ", "ⓐ">>, <<"Ⓑ", "ⓑ">>, <<"Ⓒ", "ⓒ">>, <<"Ⓓ", "ⓓ">>,
       <<"Ⓔ", "ⓔ">>, <<"Ⓕ", "ⓕ">>, <<"Ⓖ", "ⓖ">>, <<"Ⓗ", "ⓗ">>, <<"Ⓘ", "ⓘ">>,
       <<"Ⓙ", "ⓙ">>, <<"Ⓚ", "ⓚ">>, <<"Ⓛ", "ⓛ">>, <<"Ⓜ", "ⓜ">>, <<"Ⓝ", "ⓝ">>,
       <<"Ⓞ", "ⓞ">>, <<"Ⓟ", "ⓟ">>, <<"Ⓠ", "ⓠ">>, <<"Ⓡ", "ⓡ">>, <<"Ⓢ", "ⓢ">>,
       <<"Ⓣ", "ⓣ">>, <<"Ⓤ", "ⓤ">>, <<"Ⓥ", "ⓥ">>, <<"Ⓦ", "ⓦ">>, <<"Ⓧ", "ⓧ">>,
       <<"Ⓨ", "ⓨ">>, <<"Ⓩ", "ⓩ">>, <<"U+2C00", "U+2C30">>,
       <<"U+2C01", "U+2C31">>, <<"U+2C02", "U+2C32">>, <<"U+2C03", "U+2C33">>,
       <<"U+2C04", "U+2C34">>, <<"U+2C05", "U+2C35">>, <<"U+2C06", "U+2C36">>,
       <<"U+2C07", "U+2C37">>, <<"U+2C08", "U+2C38">>, <<"U+2C09", "U+2C39">>,
       <<"U+2C0A", "U+2C3A">>, <<"U+2C0B", "U+2C3B">>, <<"U+2C0C", "U+2C3C">>,
       <<"U+2C0D", "U+2C3D">>, <<"U+2C0E", "U+2C3E">>, <<"U+2C0F", "U+2C3F">>,
       <<"U+2C10", "U+2C40">>, <<"U+2C11", "U+2C41">>, <<"U+2C12", "U+2C42">>,
       <<"U+2C13", "U+2C43">>, <<"U+2C14", "U+2C44">>, <<"U+2C15", "U+2C45">>,
       <<"U+2C16", "U+2C46">>, <<"U+2C17", "U+2C47">>, <<"U+2C18", "U+2C48">>,
       <<"U+2C19", "U+2C49">>, <<"U+2C1A", "U+2C4A">>, <<"U+2C1B", "U+2C4B">>,
       <<"U+2C1C", "U+2C4C">>, <<"U+2C1D", "U+2C4D">>, <<"U+2C1E", "U+2C4E">>,
       <<"U+2C1F", "U+2C4F">>, <<"U+2C20", "U+2C50">>, <<"U+2C21", "U+2C51">>,
       <<"U+2C22", "U+2C52">>, <<"U+2C23", "U+2C53">>, <<"U+2C24", "U+2C54">>,
       <<"U+2C25", "U+2C55">>, <<"U+2C26", "U+2C56">>, <<"U+2C27", "U+2C57">>,
       <<"U+2C28", "U+2C58">>, <<"U+2C29", "U+2C59">>, <<"U+2C2A", "U+2C5A">>,
       <<"U+2C2B", "U+2C5B">>, <<"U+2C2C", "U+2C5C">>, <<"U+2C2D", "U+2C5D">>,
       <<"U+2C2E", "U+2C5E">>, <<"U+2C2F", "U+2C5F">>, <<"U+2C60", "U+2C61">>,
       <<"U+2C62", "U+026B">>, <<"U+2C63", "U+1D7D">>, <<"U+2C64", "U+027D">>,
       <<"U+2C67", "U+2C68">>, <<"U+2C69", "U+2C6A">>, <<"U+2C6B", "U+2C6C">>,
       <<"U+2C6D", "U+0251">>, <<"U+2C6E", "U+0271">>, <<"U+2C6F", "U+0250">>,
       <<"U+2C70", "U+0252">>, <<"U+2C72", "U+2C73">>, <<"U+2C75", "U+2C76">>,
       <<"U+2C7E", "U+023F">>, <<"U+2C7F", "U+0240">>, <<"Ⲁ", "ⲁ">>,
       <<"Ⲃ", "ⲃ">>, <<"Ⲅ", "ⲅ">>, <<"Ⲇ", "ⲇ">>, <<"Ⲉ", "ⲉ">>, <<"Ⲋ", "ⲋ">>,
       <<"Ⲍ", "ⲍ">>, <<"Ⲏ", "ⲏ">>, <<"Ⲑ", "ⲑ">>, <<"Ⲓ", "ⲓ">>, <<"Ⲕ", "ⲕ">>,
       <<"Ⲗ", "ⲗ">>, <<"Ⲙ", "ⲙ">>, <<"Ⲛ", "ⲛ">>, <<"Ⲝ", "ⲝ">>, <<"Ⲟ", "ⲟ">>,
       <<"Ⲡ", "ⲡ">>, <<"Ⲣ", "ⲣ">>, <<"Ⲥ", "ⲥ">>, <<"Ⲧ", "ⲧ">>, <<"Ⲩ", "ⲩ">>,
       <<"Ⲫ", "ⲫ">>, <<"Ⲭ", "ⲭ">>, <<"Ⲯ", "ⲯ">>, <<"Ⲱ", "ⲱ">>, <<"Ⲳ", "ⲳ">>,
       <<"Ⲵ", "ⲵ">>, <<"Ⲷ", "ⲷ">>, <<"Ⲹ", "ⲹ">>, <<"Ⲻ", "ⲻ">>, <<"Ⲽ", "ⲽ">>,
       <<"Ⲿ", "ⲿ">>, <<"Ⳁ", "ⳁ">>, <<"Ⳃ", "ⳃ">>, <<"Ⳅ", "ⳅ">>, <<"Ⳇ", "ⳇ">>,
       <<"Ⳉ", "ⳉ">>, <<"Ⳋ", "ⳋ">>, <<"Ⳍ", "ⳍ">>, <<"Ⳏ", "ⳏ">>, <<"Ⳑ", "ⳑ">>,
       <<"Ⳓ", "ⳓ">>, <<"Ⳕ", "ⳕ">>, <<"Ⳗ", "ⳗ">>, <<"Ⳙ", "ⳙ">>, <<"Ⳛ", "ⳛ">>,
       <<"Ⳝ", "ⳝ">>, <<"Ⳟ", "ⳟ">>, <<"Ⳡ", "ⳡ">>, <<"Ⳣ", "ⳣ">>, <<"Ⳬ", "ⳬ">>,
       <<"Ⳮ", "ⳮ">>, <<"Ⳳ", "ⳳ">>, <<"U+A640", "U+A641">>,
       <<"U+A642", "U+A643">>, <<"U+A644", "U+A645">>, <<"U+A646", "U+A647">>,
       <<"U+A648", "U+A649">>, <<"U+A64A", "U+A64B">>, <<"U+A64C", "U+A64D">>,
       <<"U+A64E", "U+A64F">>, <<"U+A650", "U+A651">>, <<"U+A652", "U+A653">>,
       <<"U+A654", "U+A655">>, <<"U+A656", "U+A657">>, <<"U+A658", "U+A659">>,
       <<"U+A65A", "U+A65B">>, <<"U+A65C", "U+A65D">>, <<"U+A65E", "U+A65F">>,
       <<"U+A660", "U+A661">>, <<"U+A662", "U+A663">>, <<"U+A664", "U+A665">>,
       <<"U+A666", "U+A667">>, <<"U+A668", "U+A669">>, <<"U+A66A", "U+A66B">>,
       <<"U+A66C", "U+A66D">>, <<"Ꚁ", "ꚁ">>, <<"Ꚃ", "ꚃ">>, <<"Ꚅ", "ꚅ">>,
       <<"Ꚇ", "ꚇ">>, <<"Ꚉ", "ꚉ">>, <<"Ꚋ", "ꚋ">>, <<"Ꚍ", "ꚍ">>, <<"Ꚏ", "ꚏ">>,
       <<"Ꚑ", "ꚑ">>, <<"Ꚓ", "ꚓ">>, <<"Ꚕ", "ꚕ">>, <<"Ꚗ", "ꚗ">>, <<"Ꚙ", "ꚙ">>,
       <<"Ꚛ", "ꚛ">>, <<"U+A722", "U+A723">>, <<"U+A724", "U+A725">>,
       <<"U+A726", "U+A727">>, <<"U+A728", "U+A729">>, <<"U+A72A", "U+A72B">>,
       <<"U+A72C", "U+A72D">>, <<"U+A72E", "U+A72F">>, <<"U+A732", "U+A733">>,
       <<"U+A734", "U+A735">>, <<"U+A736", "U+A737">>, <<"U+A738", "U+A739">>,
       <<"U+A73A", "U+A73B">>, <<"U+A73C", "U+A73D">>, <<"U+A73E", "U+A73F">>,
       <<"U+A740", "U+A741">>, <<"U+A742", "U+A743">>, <<"U+A744", "U+A745">>,
       <<"U+A746", "U+A747">>, <<"U+A748", "U+A749">>, <<"U+A74A", "U+A74B">>,
       <<"U+A74C", "U+A74D">>, <<"U+A74E", "U+A74F">>, <<"U+A750", "U+A751">>,
       <<"U+A752", "U+A753">>, <<"U+A754", "U+A755">>, <<"U+A756", "U+A757">>,
       <<"U+A758", "U+A759">>, <<"U+A75A", "U+A75B">>, <<"U+A75C", "U+A75D">>,
       <<"U+A75E", "U+A75F">>, <<"U+A760", "U+A761">>, <<"U+A762", "U+A763">>,
       <<"U+A764", "U+A765">>, <<"U+A766", "U+A767">>, <<"U+A768", "U+A769">>,
       <<"U+A76A", "U+A76B">>, <<"U+A76C", "U+A76D">>, <<"U+A76E", "U+A76F">>,
       <<"U+A779", "U+A77A">>, <<"U+A77B", "U+A77C">>, <<"U+A77D", "U+1D79">>,
       <<"U+A77E", "U+A77F">>, <<"Ꞁ", "ꞁ">>, <<"Ꞃ", "ꞃ">>, <<"Ꞅ", "ꞅ">>,
       <<"Ꞇ", "ꞇ">>, <<"Ꞌ", "ꞌ">>, <<"Ɥ", "U+0265">>, <<"Ꞑ", "ꞑ">>,
       <<"Ꞓ", "ꞓ">>, <<"Ꞗ", "ꞗ">>, <<"Ꞙ", "ꞙ">>, <<"Ꞛ", "ꞛ">>, <<"Ꞝ", "ꞝ">>,
       <<"Ꞟ", "ꞟ">>, <<"Ꞡ", "ꞡ">>, <<"Ꞣ", "ꞣ">>, <<"Ꞥ", "ꞥ">>, <<"Ꞧ", "ꞧ">>,
       <<"Ꞩ", "ꞩ">>, <<"Ɦ", "U+0266">>, <<"Ɜ", "U+025C">>, <<"Ɡ", "U+0261">>,
       <<"Ɬ", "U+026C">>, <<"Ɪ", "U+026A">>, <<"Ʞ", "ʞ">>, <<"Ʇ", "ʇ">>,
       <<"Ʝ", "ʝ">>, <<"Ꭓ", "U+AB53">>, <<"Ꞵ", "ꞵ">>, <<"Ꞷ", "ꞷ">>,
       <<"Ꞹ", "ꞹ">>, <<"Ꞻ", "ꞻ">>, <<"Ꞽ", "ꞽ">>, <<"Ꞿ", "ꞿ">>, <<"Ꟁ", "ꟁ">>,
       <<"Ꟃ", "ꟃ">>, <<"Ꞔ", "ꞔ">>, <<"Ʂ", "ʂ">>, <<"Ᶎ", "ᶎ">>, <<"Ꟈ", "ꟈ">>,
       <<"Ꟊ", "ꟊ">>, <<"Ꟑ", "ꟑ">>, <<"Ꟗ", "ꟗ">>, <<"Ꟙ", "ꟙ">>, <<"Ꟶ", "ꟶ">>,
       <<"U+FF21", "U+FF41">>, <<"U+FF22", "U+FF42">>, <<"U+FF23", "U+FF43">>,
       <<"U+FF24", "U+FF44">>, <<"U+FF25", "U+FF45">>, <<"U+FF26", "U+FF46">>,
       <<"U+FF27", "U+FF47">>, <<"U+FF28", "U+FF48">>, <<"U+FF29", "U+FF49">>,
       <<"U+FF2A", "U+FF4A">>, <<"U+FF2B", "U+FF4B">>, <<"U+FF2C", "U+FF4C">>,
       <<"U+FF2D", "U+FF4D">>, <<"U+FF2E", "U+FF4E">>, <<"U+FF2F", "U+FF4F">>,
       <<"U+FF30", "U+FF50">>, <<"U+FF31", "U+FF51">>, <<"U+FF32", "U+FF52">>,
       <<"U+FF33", "U+FF53">>, <<"U+FF34", "U+FF54">>, <<"U+FF35", "U+FF55">>,
       <<"U+FF36", "U+FF56">>, <<"U+FF37", "U+FF57">>, <<"U+FF38", "U+FF58">>,
       <<"U+FF39", "U+FF59">>, <<"U+FF3A", "U+FF5A">>,
       <<"U+10400", "U+10428">>, <<"U+10401", "U+10429">>,
       <<"U+10402", "U+1042A">>, <<"U+10403", "U+1042B">>,
       <<"U+10404", "U+1042C">>, <<"U+10405", "U+1042D">>,
       <<"U+10406", "U+1042E">>, <<"U+10407", "U+1042F">>,
       <<"U+10408", "U+10430">>, <<"U+10409", "U+10431">>,
       <<"U+1040A", "U+10432">>, <<"U+1040B", "U+10433">>,
       <<"U+1040C", "U+10434">>, <<"U+1040D", "U+10435">>,
       <<"U+1040E", "U+10436">>, <<"U+1040F", "U+10437">>,
       <<"U+10410", "U+10438">>, <<"U+10411", "U+10439">>,
       <<"U+10412", "U+1043A">>, <<"U+10413", "U+1043B">>,
       <<"U+10414", "U+1043C">>, <<"U+10415", "U+1043D">>,
       <<"U+10416", "U+1043E">>, <<"U+10417", "U+1043F">>,
       <<"U+10418", "U+10440">>, <<"U+10419", "U+10441">>,
       <<"U+1041A", "U+10442">>, <<"U+1041B", "U+10443">>,
       <<"U+1041C", "U+10444">>, <<"U+1041D", "U+10445">>,
       <<"U+1041E", "U+10446">>, <<"U+1041F", "U+10447">>,
       <<"U+10420", "U+10448">>, <<"U+10421", "U+10449">>,
       <<"U+10422", "U+1044A">>, <<"U+10423", "U+1044B">>,
       <<"U+10424", "U+1044C">>, <<"U+10425", "U+1044D">>,
       <<"U+10426", "U+1044E">>, <<"U+10427", "U+1044F">>,
       <<"U+104B0", "U+104D8">>, <<"U+104B1", "U+104D9">>,
       <<"U+104B2", "U+104DA">>, <<"U+104B3", "U+104DB">>,
       <<"U+104B4", "U+104DC">>, <<"U+104B5", "U+104DD">>,
       <<"U+104B6", "U+104DE">>, <<"U+104B7", "U+104DF">>,
       <<"U+104B8", "U+104E0">>, <<"U+104B9", "U+104E1">>,
       <<"U+104BA", "U+104E2">>, <<"U+104BB", "U+104E3">>,
       <<"U+104BC", "U+104E4">>, <<"U+104BD", "U+104E5">>,
       <<"U+104BE", "U+104E6">>, <<"U+104BF", "U+104E7">>,
       <<"U+104C0", "U+104E8">>, <<"U+104C1", "U+104E9">>,
       <<"U+104C2", "U+104EA">>, <<"U+104C3", "U+104EB">>,
       <<"U+104C4", "U+104EC">>, <<"U+104C5", "U+104ED">>,
       <<"U+104C6", "U+104EE">>, <<"U+104C7", "U+104EF">>,
       <<"U+104C8", "U+104F0">>, <<"U+104C9", "U+104F1">>,
       <<"U+104CA", "U+104F2">>, <<"U+104CB", "U+104F3">>,
       <<"U+104CC", "U+104F4">>, <<"U+104CD", "U+104F5">>,
       <<"U+104CE", "U+104F6">>, <<"U+104CF", "U+104F7">>,
       <<"U+104D0", "U+104F8">>, <<"U+104D1", "U+104F9">>,
       <<"U+104D2", "U+104FA">>, <<"U+104D3", "U+104FB">>,
       <<"U+10570", "U+10597">>, <<"U+10571", "U+10598">>,
       <<"U+10572", "U+10599">>, <<"U+10573", "U+1059A">>,
       <<"U+10574", "U+1059B">>, <<"U+10575", "U+1059C">>,
       <<"U+10576", "U+1059D">>, <<"U+10577", "U+1059E">>,
       <<"U+10578", "U+1059F">>, <<"U+10579", "U+105A0">>,
       <<"U+1057A", "U+105A1">>, <<"U+1057C", "U+105A3">>,
       <<"U+1057D", "U+105A4">>, <<"U+1057E", "U+105A5">>,
       <<"U+1057F", "U+105A6">>, <<"U+10580", "U+105A7">>,
       <<"U+10581", "U+105A8">>, <<"U+10582", "U+105A9">>,
       <<"U+10583", "U+105AA">>, <<"U+10584", "U+105AB">>,
       <<"U+10585", "U+105AC">>, <<"U+10586", "U+105AD">>,
       <<"U+10587", "U+105AE">>, <<"U+10588", "U+105AF">>,
       <<"U+10589", "U+105B0">>, <<"U+1058A", "U+105B1">>,
       <<"U+1058C", "U+105B3">>, <<"U+1058D", "U+105B4">>,
       <<"U+1058E", "U+105B5">>, <<"U+1058F", "U+105B6">>,
       <<"U+10590", "U+105B7">>, <<"U+10591", "U+105B8">>,
       <<"U+10592", "U+105B9">>, <<"U+10594", "U+105BB">>,
       <<"U+10595", "U+105BC">>, <<"U+10C80", "U+10CC0">>,
       <<"U+10C81", "U+10CC1">>, <<"U+10C82", "U+10CC2">>,
       <<"U+10C83", "U+10CC3">>, <<"U+10C84", "U+10CC4">>,
       <<"U+10C85", "U+10CC5">>, <<"U+10C86", "U+10CC6">>,
       <<"U+10C87", "U+10CC7">>, <<"U+10C88", "U+10CC8">>,
       <<"U+10C89", "U+10CC9">>, <<"U+10C8A", "U+10CCA">>,
       <<"U+10C8B", "U+10CCB">>, <<"U+10C8C", "U+10CCC">>,
       <<"U+10C8D", "U+10CCD">>, <<"U+10C8E", "U+10CCE">>,
       <<"U+10C8F", "U+10CCF">>, <<"U+10C90", "U+10CD0">>,
       <<"U+10C91", "U+10CD1">>, <<"U+10C92", "U+10CD2">>,
       <<"U+10C93", "U+10CD3">>, <<"U+10C94", "U+10CD4">>,
       <<"U+10C95", "U+10CD5">>, <<"U+10C96", "U+10CD6">>,
       <<"U+10C97", "U+10CD7">>, <<"U+10C98", "U+10CD8">>,
       <<"U+10C99", "U+10CD9">>, <<"U+10C9A", "U+10CDA">>,
       <<"U+10C9B", "U+10CDB">>, <<"U+10C9C", "U+10CDC">>,
       <<"U+10C9D", "U+10CDD">>, <<"U+10C9E", "U+10CDE">>,
       <<"U+10C9F", "U+10CDF">>, <<"U+10CA0", "U+10CE0">>,
       <<"U+10CA1", "U+10CE1">>, <<"U+10CA2", "U+10CE2">>,
       <<"U+10CA3", "U+10CE3">>, <<"U+10CA4", "U+10CE4">>,
       <<"U+10CA5", "U+10CE5">>, <<"U+10CA6", "U+10CE6">>,
       <<"U+10CA7", "U+10CE7">>, <<"U+10CA8", "U+10CE8">>,
       <<"U+10CA9", "U+10CE9">>, <<"U+10CAA", "U+10CEA">>,
       <<"U+10CAB", "U+10CEB">>, <<"U+10CAC", "U+10CEC">>,
       <<"U+10CAD", "U+10CED">>, <<"U+10CAE", "U+10CEE">>,
       <<"U+10CAF", "U+10CEF">>, <<"U+10CB0", "U+10CF0">>,
       <<"U+10CB1", "U+10CF1">>, <<"U+10CB2", "U+10CF2">>,
       <<"U+118A0", "U+118C0">>, <<"U+118A1", "U+118C1">>,
       <<"U+118A2", "U+118C2">>, <<"U+118A3", "U+118C3">>,
       <<"U+118A4", "U+118C4">>, <<"U+118A5", "U+118C5">>,
       <<"U+118A6", "U+118C6">>, <<"U+118A7", "U+118C7">>,
       <<"U+118A8", "U+118C8">>, <<"U+118A9", "U+118C9">>,
       <<"U+118AA", "U+118CA">>, <<"U+118AB", "U+118CB">>,
       <<"U+118AC", "U+118CC">>, <<"U+118AD", "U+118CD">>,
       <<"U+118AE", "U+118CE">>, <<"U+118AF", "U+118CF">>,
       <<"U+118B0", "U+118D0">>, <<"U+118B1", "U+118D1">>,
       <<"U+118B2", "U+118D2">>, <<"U+118B3", "U+118D3">>,
       <<"U+118B4", "U+118D4">>, <<"U+118B5", "U+118D5">>,
       <<"U+118B6", "U+118D6">>, <<"U+118B7", "U+118D7">>,
       <<"U+118B8", "U+118D8">>, <<"U+118B9", "U+118D9">>,
       <<"U+118BA", "U+118DA">>, <<"U+118BB", "U+118DB">>,
       <<"U+118BC", "U+118DC">>, <<"U+118BD", "U+118DD">>,
       <<"U+118BE", "U+118DE">>, <<"U+118BF", "U+118DF">>,
       <<"U+16E40", "U+16E60">>, <<"U+16E41", "U+16E61">>,
       <<"U+16E42", "U+16E62">>, <<"U+16E43", "U+16E63">>,
       <<"U+16E44", "U+16E64">>, <<"U+16E45", "U+16E65">>,
       <<"U+16E46", "U+16E66">>, <<"U+16E47", "U+16E67">>,
       <<"U+16E48", "U+16E68">>, <<"U+16E49", "U+16E69">>,
       <<"U+16E4A", "U+16E6A">>, <<"U+16E4B", "U+16E6B">>,
       <<"U+16E4C", "U+16E6C">>, <<"U+16E4D", "U+16E6D">>,
       <<"U+16E4E", "U+16E6E">>, <<"U+16E4F", "U+16E6F">>,
       <<"U+16E50", "U+16E70">>, <<"U+16E51", "U+16E71">>,
       <<"U+16E52", "U+16E72">>, <<"U+16E53", "U+16E73">>,
       <<"U+16E54", "U+16E74">>, <<"U+16E55", "U+16E75">>,
       <<"U+16E56", "U+16E76">>, <<"U+16E57", "U+16E77">>,
       <<"U+16E58", "U+16E78">>, <<"U+16E59", "U+16E79">>,
       <<"U+16E5A", "U+16E7A">>, <<"U+16E5B", "U+16E7B">>,
       <<"U+16E5C", "U+16E7C">>, <<"U+16E5D", "U+16E7D">>,
       <<"U+16E5E", "U+16E7E">>, <<"U+16E5F", "U+16E7F">>,
       <<"U+1E900", "U+1E922">>, <<"U+1E901", "U+1E923">>,
       <<"U+1E902", "U+1E924">>, <<"U+1E903", "U+1E925">>,
       <<"U+1E904", "U+1E926">>, <<"U+1E905", "U+1E927">>,
       <<"U+1E906", "U+1E928">>, <<"U+1E907", "U+1E929">>,
       <<"U+1E908", "U+1E92A">>, <<"U+1E909", "U+1E92B">>,
       <<"U+1E90A", "U+1E92C">>, <<"U+1E90B", "U+1E92D">>,
       <<"U+1E90C", "U+1E92E">>, <<"U+1E90D", "U+1E92F">>,
       <<"U+1E90E", "U+1E930">>, <<"U+1E90F", "U+1E931">>,
       <<"U+1E910", "U+1E932">>, <<"U+1E911", "U+1E933">>,
       <<"U+1E912", "U+1E934">>, <<"U+1E913", "U+1E935">>,
       <<"U+1E914", "U+1E936">>, <<"U+1E915", "U+1E937">>,
       <<"U+1E916", "U+1E938">>, <<"U+1E917", "U+1E939">>,
       <<"U+1E918", "U+1E93A">>, <<"U+1E919", "U+1E93B">>,
       <<"U+1E91A", "U+1E93C">>, <<"U+1E91B", "U+1E93D">>,
       <<"U+1E91C", "U+1E93E">>, <<"U+1E91D", "U+1E93F">>,
       <<"U+1E91E", "U+1E940">>, <<"U+1E91F", "U+1E941">>,
       <<"U+1E920", "U+1E942">>, <<"U+1E921", "U+1E943">> >>

\* <<c, the characters of c.upper()>> for every c that upper() changes
UpperPairs ==
    << <<"a", "A">>, <<"b", "B">>, <<"c", "C">>, <<"d", "D">>, <<"e", "E">>,
       <<"f", "F">>, <<"g", "G">>, <<"h", "H">>, <<"i", "I">>, <<"j", "J">>,
       <<"k", "K">>, <<"l", "L">>, <<"m", "M">>, <<"n", "N">>, <<"o", "O">>,
       <<"p", "P">>, <<"q", "Q">>, <<"r", "R">>, <<"s", "S">>, <<"t", "T">>,
       <<"u", "U">>, <<"v", "V">>, <<"w", "W">>, <<"x", "X">>, <<"y", "Y">>,
       <<"z", "Z">>, <<"µ", "Μ">>, <<"ß", "S", "S">>, <<"à", "À">>,
       <<"á", "Á">>, <<"â", "Â">>, <<"ã", "Ã">>, <<"ä", "Ä">>, <<"å", "Å">>,
       <<"æ", "Æ">>, <<"ç", "Ç">>, <<"è", "È">>, <<"é", "É">>, <<"ê", "Ê">>,
       <<"ë", "Ë">>, <<"ì", "Ì">>, <<"í", "Í">>, <<"î", "Î">>, <<"ï", "Ï">>,
       <<"ð", "Ð">>, <<"ñ", "Ñ">>, <<"ò", "Ò">>, <<"ó", "Ó">>, <<"ô", "Ô">>,
       <<"õ", "Õ">>, <<"ö", "Ö">>, <<"ø", "Ø">>, <<"ù", "Ù">>, <<"ú", "Ú">>,
       <<"û", "Û">>, <<"ü", "Ü">>, <<"ý", "Ý">>, <<"þ", "Þ">>,
       <<"ÿ", "U+0178">>, <<"U+0101", "U+0100">>, <<"U+0103", "U+0102">>,
       <<"U+0105", "U+0104">>, <<"U+0107", "U+0106">>, <<"U+0109", "U+0108">>,
       <<"U+010B", "U+010A">>, <<"U+010D", "U+010C">>, <<"U+010F", "U+010E">>,
       <<"U+0111", "U+0110">>, <<"U+0113", "U+0112">>, <<"U+0115", "U+0114">>,
       <<"U+0117", "U+0116">>, <<"U+0119", "U+0118">>, <<"U+011B", "U+011A">>,
       <<"U+011D", "U+011C">>, <<"U+011F", "U+011E">>, <<"U+0121", "U+0120">>,
       <<"U+0123", "U+0122">>, <<"U+0125", "U+0124">>, <<"U+0127", "U+0126">>,
       <<"U+0129", "U+0128">>, <<"U+012B", "U+012A">>, <<"U+012D", "U+012C">>,
       <<"U+012F", "U+012E">>, <<"U+0131", "I">>, <<"U+0133", "U+0132">>,
       <<"U+0135", "U+0134">>, <<"U+0137", "U+0136">>, <<"U+013A", "U+0139">>,
       <<"U+013C", "U+013B">>, <<"U+013E", "U+013D">>, <<"U+0140", "U+013F">>,
       <<"U+0142", "U+0141">>, <<"U+0144", "U+0143">>, <<"U+0146", "U+0145">>,
       <<"U+0148", "U+0147">>, <<"U+0149", "ʼ", "N">>, <<"U+014B", "U+014A">>,
       <<"U+014D", "U+014C">>, <<"U+014F", "U+014E">>, <<"U+0151", "U+0150">>,
       <<"U+0153", "U+0152">>, <<"U+0155", "U+0154">>, <<"U+0157", "U+0156">>,
       <<"U+0159", "U+0158">>, <<"U+015B", "U+015A">>, <<"U+015D", "U+015C">>,
       <<"U+015F", "U+015E">>, <<"U+0161", "U+0160">>, <<"U+0163", "U+0162">>,
       <<"U+0165", "U+0164">>, <<"U+0167", "U+0166">>, <<"U+0169", "U+0168">>,
       <<"U+016B", "U+016A">>, <<"U+016D", "U+016C">>, <<"U+016F", "U+016E">>,
       <<"U+0171", "U+0170">>, <<"U+0173", "U+0172">>, <<"U+0175", "U+0174">>,
       <<"U+0177", "U+0176">>, <<"U+017A", "U+0179">>, <<"U+017C", "U+017B">>,
       <<"U+017E", "U+017D">>, <<"U+017F", "S">>, <<"ƀ", "U+0243">>,
       <<"ƃ", "Ƃ">>, <<"ƅ", "Ƅ">>, <<"ƈ", "Ƈ">>, <<"ƌ", "Ƌ">>, <<"ƒ", "Ƒ">>,
       <<"ƕ", "Ƕ">>, <<"ƙ", "Ƙ">>, <<"ƚ", "U+023D">>, <<"ƞ", "U+0220">>,
       <<"ơ", "Ơ">>, <<"ƣ", "Ƣ">>, <<"ƥ", "Ƥ">>, <<"ƨ", "Ƨ">>, <<"ƭ", "Ƭ">>,
       <<"ư", "Ư">>, <<"ƴ", "Ƴ">>, <<"ƶ", "Ƶ">>, <<"ƹ", "Ƹ">>, <<"ƽ", "Ƽ">>,
       <<"ƿ", "Ƿ">>, <<"ǅ", "Ǆ">>, <<"ǆ", "Ǆ">>, <<"ǈ", "Ǉ">>, <<"ǉ", "Ǉ">>,
       <<"ǋ", "Ǌ">>, <<"ǌ", "Ǌ">>, <<"ǎ", "Ǎ">>, <<"ǐ", "Ǐ">>, <<"ǒ", "Ǒ">>,
       <<"ǔ", "Ǔ">>, <<"ǖ", "Ǖ">>, <<"ǘ", "Ǘ">>, <<"ǚ", "Ǚ">>, <<"ǜ", "Ǜ">>,
       <<"ǝ", "Ǝ">>, <<"ǟ", "Ǟ">>, <<"ǡ", "Ǡ">>, <<"ǣ", "Ǣ">>, <<"ǥ", "Ǥ">>,
       <<"ǧ", "Ǧ">>, <<"ǩ", "Ǩ">>, <<"ǫ", "Ǫ">>, <<"ǭ", "Ǭ">>, <<"ǯ", "Ǯ">>,
       <<"ǰ", "J", "U+030C">>, <<"ǲ", "Ǳ">>, <<"ǳ", "Ǳ">>, <<"ǵ", "Ǵ">>,
       <<"ǹ", "Ǹ">>, <<"ǻ", "Ǻ">>, <<"ǽ", "Ǽ">>, <<"ǿ", "Ǿ">>,
       <<"U+0201", "U+0200">>, <<"U+0203", "U+0202">>, <<"U+0205", "U+0204">>,
       <<"U+0207", "U+0206">>, <<"U+0209", "U+0208">>, <<"U+020B", "U+020A">>,
       <<"U+020D", "U+020C">>, <<"U+020F", "U+020E">>, <<"U+0211", "U+0210">>,
       <<"U+0213", "U+0212">>, <<"U+0215", "U+0214">>, <<"U+0217", "U+0216">>,
       <<"U+0219", "U+0218">>, <<"U+021B", "U+021A">>, <<"U+021D", "U+021C">>,
       <<"U+021F", "U+021E">>, <<"U+0223", "U+0222">>, <<"U+0225", "U+0224">>,
       <<"U+0227", "U+0226">>, <<"U+0229", "U+0228">>, <<"U+022B", "U+022A">>,
       <<"U+022D", "U+022C">>, <<"U+022F", "U+022E">>, <<"U+0231", "U+0230">>,
       <<"U+0233", "U+0232">>, <<"U+023C", "U+023B">>, <<"U+023F", "U+2C7E">>,
       <<"U+0240", "U+2C7F">>, <<"U+0242", "U+0241">>, <<"U+0247", "U+0246">>,
       <<"U+0249", "U+0248">>, <<"U+024B", "U+024A">>, <<"U+024D", "U+024C">>,
       <<"U+024F", "U+024E">>, <<"U+0250", "U+2C6F">>, <<"U+0251", "U+2C6D">>,
       <<"U+0252", "U+2C70">>, <<"U+0253", "Ɓ">>, <<"U+0254", "Ɔ">>,
       <<"U+0256", "Ɖ">>, <<"U+0257", "Ɗ">>, <<"U+0259", "Ə">>,
       <<"U+025B", "Ɛ">>, <<"U+025C", "Ɜ">>, <<"U+0260", "Ɠ">>,
       <<"U+0261", "Ɡ">>, <<"U+0263", "Ɣ">>, <<"U+0265", "Ɥ">>,
       <<"U+0266", "Ɦ">>, <<"U+0268", "Ɨ">>, <<"U+0269", "Ɩ">>,
       <<"U+026A", "Ɪ">>, <<"U+026B", "U+2C62">>, <<"U+026C", "Ɬ">>,
       <<"U+026F", "Ɯ">>, <<"U+0271", "U+2C6E">>, <<"U+0272", "Ɲ">>,
       <<"U+0275", "Ɵ">>, <<"U+027D", "U+2C64">>, <<"ʀ", "Ʀ">>, <<"ʂ", "Ʂ">>,
       <<"ʃ", "Ʃ">>, <<"ʇ", "Ʇ">>, <<"ʈ", "Ʈ">>, <<"ʉ", "U+0244">>,
       <<"ʊ", "Ʊ">>, <<"ʋ", "Ʋ">>, <<"ʌ", "U+0245">>, <<"ʒ", "Ʒ">>,
       <<"ʝ", "Ʝ">>, <<"ʞ", "Ʞ">>, <<"U+0345", "Ι">>, <<"U+0371", "U+0370">>,
       <<"U+0373", "U+0372">>, <<"U+0377", "U+0376">>, <<"U+037B", "Ͻ">>,
       <<"U+037C", "Ͼ">>, <<"U+037D", "Ͽ">>, <<"ΐ", "Ι", "U+0308", "U+0301">>,
       <<"ά", "Ά">>, <<"έ", "Έ">>, <<"ή", "Ή">>, <<"ί", "Ί">>,
       <<"ΰ", "Υ", "U+0308", "U+0301">>, <<"α", "Α">>, <<"β", "Β">>,
       <<"γ", "Γ">>, <<"δ", "Δ">>, <<"ε", "Ε">>, <<"ζ", "Ζ">>, <<"η", "Η">>,
       <<"θ", "Θ">>, <<"ι", "Ι">>, <<"κ", "Κ">>, <<"λ", "Λ">>, <<"μ", "Μ">>,
       <<"ν", "Ν">>, <<"ξ", "Ξ">>, <<"ο", "Ο">>, <<"π", "Π">>, <<"ρ", "Ρ">>,
       <<"ς", "Σ">>, <<"σ", "Σ">>, <<"τ", "Τ">>, <<"υ", "Υ">>, <<"φ", "Φ">>,
       <<"χ", "Χ">>, <<"ψ", "Ψ">>, <<"ω", "Ω">>, <<"ϊ", "Ϊ">>, <<"ϋ", "Ϋ">>,
       <<"ό", "Ό">>, <<"ύ", "Ύ">>, <<"ώ", "Ώ">>, <<"ϐ", "Β">>, <<"ϑ", "Θ">>,
       <<"ϕ", "Φ">>, <<"ϖ", "Π">>, <<"ϗ", "Ϗ">>, <<"ϙ", "Ϙ">>, <<"ϛ", "Ϛ">>,
       <<"ϝ", "Ϝ">>, <<"ϟ", "Ϟ">>, <<"ϡ", "Ϡ">>, <<"ϣ", "Ϣ">>, <<"ϥ", "Ϥ">>,
       <<"ϧ", "Ϧ">>, <<"ϩ", "Ϩ">>, <<"ϫ", "Ϫ">>, <<"ϭ", "Ϭ">>, <<"ϯ", "Ϯ">>,
       <<"ϰ", "Κ">>, <<"ϱ", "Ρ">>, <<"ϲ", "Ϲ">>, <<"ϳ", "U+037F">>,
       <<"ϵ", "Ε">>, <<"ϸ", "Ϸ">>, <<"ϻ", "Ϻ">>, <<"U+0430", "U+0410">>,
       <<"U+0431", "U+0411">>, <<"U+0432", "U+0412">>, <<"U+0433", "U+0413">>,
       <<"U+0434", "U+0414">>, <<"U+0435", "U+0415">>, <<"U+0436", "U+0416">>,
       <<"U+0437", "U+0417">>, <<"U+0438", "U+0418">>, <<"U+0439", "U+0419">>,
       <<"U+043A", "U+041A">>, <<"U+043B", "U+041B">>, <<"U+043C", "U+041C">>,
       <<"U+043D", "U+041D">>, <<"U+043E", "U+041E">>, <<"U+043F", "U+041F">>,
       <<"U+0440", "U+0420">>, <<"U+0441", "U+0421">>, <<"U+0442", "U+0422">>,
       <<"U+0443", "U+0423">>, <<"U+0444", "U+0424">>, <<"U+0445", "U+0425">>,
       <<"U+0446", "U+0426">>, <<"U+0447", "U+0427">>, <<"U+0448", "U+0428">>,
       <<"U+0449", "U+0429">>, <<"U+044A", "U+042A">>, <<"U+044B", "U+042B">>,
       <<"U+044C", "U+042C">>, <<"U+044D", "U+042D">>, <<"U+044E", "U+042E">>,
       <<"U+044F", "U+042F">>, <<"U+0450", "U+0400">>, <<"U+0451", "U+0401">>,
       <<"U+0452", "U+0402">>, <<"U+0453", "U+0403">>, <<"U+0454", "U+0404">>,
       <<"U+0455", "U+0405">>, <<"U+0456", "U+0406">>, <<"U+0457", "U+0407">>,
       <<"U+0458", "U+0408">>, <<"U+0459", "U+0409">>, <<"U+045A", "U+040A">>,
       <<"U+045B", "U+040B">>, <<"U+045C", "U+040C">>, <<"U+045D", "U+040D">>,
       <<"U+045E", "U+040E">>, <<"U+045F", "U+040F">>, <<"U+0461", "U+0460">>,
       <<"U+0463", "U+0462">>, <<"U+0465", "U+0464">>, <<"U+0467", "U+0466">>,
       <<"U+0469", "U+0468">>, <<"U+046B", "U+046A">>, <<"U+046D", "U+046C">>,
       <<"U+046F", "U+046E">>, <<"U+0471", "U+0470">>, <<"U+0473", "U+0472">>,
       <<"U+0475", "U+0474">>, <<"U+0477", "U+0476">>, <<"U+0479", "U+0478">>,
       <<"U+047B", "U+047A">>, <<"U+047D", "U+047C">>, <<"U+047F", "U+047E">>,
       <<"ҁ", "Ҁ">>, <<"ҋ", "Ҋ">>, <<"ҍ", "Ҍ">>, <<"ҏ", "Ҏ">>, <<"ґ", "Ґ">>,
       <<"ғ", "Ғ">>, <<"ҕ", "Ҕ">>, <<"җ", "Җ">>, <<"ҙ", "Ҙ">>, <<"қ", "Қ">>,
       <<"ҝ", "Ҝ">>, <<"ҟ", "Ҟ">>, <<"ҡ", "Ҡ">>, <<"ң", "Ң">>, <<"ҥ", "Ҥ">>,
       <<"ҧ", "Ҧ">>, <<"ҩ", "Ҩ">>, <<"ҫ", "Ҫ">>, <<"ҭ", "Ҭ">>, <<"ү", "Ү">>,
       <<"ұ", "Ұ">>, <<"ҳ", "Ҳ">>, <<"ҵ", "Ҵ">>, <<"ҷ", "Ҷ">>, <<"ҹ", "Ҹ">>,
       <<"һ", "Һ">>, <<"ҽ", "Ҽ">>, <<"ҿ", "Ҿ">>, <<"ӂ", "Ӂ">>, <<"ӄ", "Ӄ">>,
       <<"ӆ", "Ӆ">>, <<"ӈ", "Ӈ">>, <<"ӊ", "Ӊ">>, <<"ӌ", "Ӌ">>, <<"ӎ", "Ӎ">>,
       <<"ӏ", "Ӏ">>, <<"ӑ", "Ӑ">>, <<"ӓ", "Ӓ">>, <<"ӕ", "Ӕ">>, <<"ӗ", "Ӗ">>,
       <<"ә", "Ә">>, <<"ӛ", "Ӛ">>, <<"ӝ", "Ӝ">>, <<"ӟ", "Ӟ">>, <<"ӡ", "Ӡ">>,
       <<"ӣ", "Ӣ">>, <<"ӥ", "Ӥ">>, <<"ӧ", "Ӧ">>, <<"ө", "Ө">>, <<"ӫ", "Ӫ">>,
       <<"ӭ", "Ӭ">>, <<"ӯ", "Ӯ">>, <<"ӱ", "Ӱ">>, <<"ӳ", "Ӳ">>, <<"ӵ", "Ӵ">>,
       <<"ӷ", "Ӷ">>, <<"ӹ", "Ӹ">>, <<"ӻ", "Ӻ">>, <<"ӽ", "Ӽ">>, <<"ӿ", "Ӿ">>,
       <<"U+0501", "U+0500">>, <<"U+0503", "U+0502">>, <<"U+0505", "U+0504">>,
       <<"U+0507", "U+0506">>, <<"U+0509", "U+0508">>, <<"U+050B", "U+050A">>,
       <<"U+050D", "U+050C">>, <<"U+050F", "U+050E">>, <<"U+0511", "U+0510">>,
       <<"U+0513", "U+0512">>, <<"U+0515", "U+0514">>, <<"U+0517", "U+0516">>,
       <<"U+0519", "U+0518">>, <<"U+051B", "U+051A">>, <<"U+051D", "U+051C">>,
       <<"U+051F", "U+051E">>, <<"U+0521", "U+0520">>, <<"U+0523", "U+0522">>,
       <<"U+0525", "U+0524">>, <<"U+0527", "U+0526">>, <<"U+0529", "U+0528">>,
       <<"U+052B", "U+052A">>, <<"U+052D", "U+052C">>, <<"U+052F", "U+052E">>,
       <<"U+0561", "U+0531">>, <<"U+0562", "U+0532">>, <<"U+0563", "U+0533">>,
       <<"U+0564", "U+0534">>, <<"U+0565", "U+0535">>, <<"U+0566", "U+0536">>,
       <<"U+0567", "U+0537">>, <<"U+0568", "U+0538">>, <<"U+0569", "U+0539">>,
       <<"U+056A", "U+053A">>, <<"U+056B", "U+053B">>, <<"U+056C", "U+053C">>,
       <<"U+056D", "U+053D">>, <<"U+056E", "U+053E">>, <<"U+056F", "U+053F">>,
       <<"U+0570", "U+0540">>, <<"U+0571", "U+0541">>, <<"U+0572", "U+0542">>,
       <<"U+0573", "U+0543">>, <<"U+0574", "U+0544">>, <<"U+0575", "U+0545">>,
       <<"U+0576", "U+0546">>, <<"U+0577", "U+0547">>, <<"U+0578", "U+0548">>,
       <<"U+0579", "U+0549">>, <<"U+057A", "U+054A">>, <<"U+057B", "U+054B">>,
       <<"U+057C", "U+054C">>, <<"U+057D", "U+054D">>, <<"U+057E", "U+054E">>,
       <<"U+057F", "U+054F">>, <<"ր", "U+0550">>, <<"ց", "U+0551">>,
       <<"ւ", "U+0552">>, <<"փ", "U+0553">>, <<"ք", "U+0554">>,
       <<"օ", "U+0555">>, <<"ֆ", "U+0556">>, <<"և", "U+0535", "U+0552">>,
       <<"ა", "Ა">>, <<"ბ", "Ბ">>, <<"გ", "Გ">>, <<"დ", "Დ">>, <<"ე", "Ე">>,
       <<"ვ", "Ვ">>, <<"ზ", "Ზ">>, <<"თ", "Თ">>, <<"ი", "Ი">>, <<"კ", "Კ">>,
       <<"ლ", "Ლ">>, <<"მ", "Მ">>, <<"ნ", "Ნ">>, <<"ო", "Ო">>, <<"პ", "Პ">>,
       <<"ჟ", "Ჟ">>, <<"რ", "Რ">>, <<"ს", "Ს">>, <<"ტ", "Ტ">>, <<"უ", "Უ">>,
       <<"ფ", "Ფ">>, <<"ქ", "Ქ">>, <<"ღ", "Ღ">>, <<"ყ", "Ყ">>, <<"შ", "Შ">>,
       <<"ჩ", "Ჩ">>, <<"ც", "Ც">>, <<"ძ", "Ძ">>, <<"წ", "Წ">>, <<"ჭ", "Ჭ">>,
       <<"ხ", "Ხ">>, <<"ჯ", "Ჯ">>, <<"ჰ", "Ჰ">>, <<"ჱ", "Ჱ">>, <<"ჲ", "Ჲ">>,
       <<"ჳ", "Ჳ">>, <<"ჴ", "Ჴ">>, <<"ჵ", "Ჵ">>, <<"ჶ", "Ჶ">>, <<"ჷ", "Ჷ">>,
       <<"ჸ", "Ჸ">>, <<"ჹ", "Ჹ">>, <<"ჺ", "Ჺ">>, <<"ჽ", "Ჽ">>, <<"ჾ", "Ჾ">>,
       <<"ჿ", "Ჿ">>, <<"ᏸ", "Ᏸ">>, <<"ᏹ", "Ᏹ">>, <<"ᏺ", "Ᏺ">>, <<"ᏻ", "Ᏻ">>,
       <<"ᏼ", "Ᏼ">>, <<"ᏽ", "Ᏽ">>, <<"ᲀ", "U+0412">>, <<"ᲁ", "U+0414">>,
       <<"ᲂ", "U+041E">>, <<"ᲃ", "U+0421">>, <<"ᲄ", "U+0422">>,
       <<"ᲅ", "U+0422">>, <<"ᲆ", "U+042A">>, <<"ᲇ", "U+0462">>,
       <<"ᲈ", "U+A64A">>, <<"U+1D79", "U+A77D">>, <<"U+1D7D", "U+2C63">>,
       <<"ᶎ", "Ᶎ">>, <<"U+1E01", "U+1E00">>, <<"U+1E03", "U+1E02">>,
       <<"U+1E05", "U+1E04">>, <<"U+1E07", "U+1E06">>, <<"U+1E09", "U+1E08">>,
       <<"U+1E0B", "U+1E0A">>, <<"U+1E0D", "U+1E0C">>, <<"U+1E0F", "U+1E0E">>,
       <<"U+1E11", "U+1E10">>, <<"U+1E13", "U+1E12">>, <<"U+1E15", "U+1E14">>,
       <<"U+1E17", "U+1E16">>, <<"U+1E19", "U+1E18">>, <<"U+1E1B", "U+1E1A">>,
       <<"U+1E1D", "U+1E1C">>, <<"U+1E1F", "U+1E1E">>, <<"U+1E21", "U+1E20">>,
       <<"U+1E23", "U+1E22">>, <<"U+1E25", "U+1E24">>, <<"U+1E27", "U+1E26">>,
       <<"U+1E29", "U+1E28">>, <<"U+1E2B", "U+1E2A">>, <<"U+1E2D", "U+1E2C">>,
       <<"U+1E2F", "U+1E2E">>, <<"U+1E31", "U+1E30">>, <<"U+1E33", "U+1E32">>,
       <<"U+1E35", "U+1E34">>, <<"U+1E37", "U+1E36">>, <<"U+1E39", "U+1E38">>,
       <<"U+1E3B", "U+1E3A">>, <<"U+1E3D", "U+1E3C">>, <<"U+1E3F", "U+1E3E">>,
       <<"U+1E41", "U+1E40">>, <<"U+1E43", "U+1E42">>, <<"U+1E45", "U+1E44">>,
       <<"U+1E47", "U+1E46">>, <<"U+1E49", "U+1E48">>, <<"U+1E4B", "U+1E4A">>,
       <<"U+1E4D", "U+1E4C">>, <<"U+1E4F", "U+1E4E">>, <<"U+1E51", "U+1E50">>,
       <<"U+1E53", "U+1E52">>, <<"U+1E55", "U+1E54">>, <<"U+1E57", "U+1E56">>,
       <<"U+1E59", "U+1E58">>, <<"U+1E5B", "U+1E5A">>, <<"U+1E5D", "U+1E5C">>,
       <<"U+1E5F", "U+1E5E">>, <<"U+1E61", "U+1E60">>, <<"U+1E63", "U+1E62">>,
       <<"U+1E65", "U+1E64">>, <<"U+1E67", "U+1E66">>, <<"U+1E69", "U+1E68">>,
       <<"U+1E6B", "U+1E6A">>, <<"U+1E6D", "U+1E6C">>, <<"U+1E6F", "U+1E6E">>,
       <<"U+1E71", "U+1E70">>, <<"U+1E73", "U+1E72">>, <<"U+1E75", "U+1E74">>,
       <<"U+1E77", "U+1E76">>, <<"U+1E79", "U+1E78">>, <<"U+1E7B", "U+1E7A">>,
       <<"U+1E7D", "U+1E7C">>, <<"U+1E7F", "U+1E7E">>, <<"ẁ", "Ẁ">>,
       <<"ẃ", "Ẃ">>, <<"ẅ", "Ẅ">>, <<"ẇ", "Ẇ">>, <<"ẉ", "Ẉ">>, <<"ẋ", "Ẋ">>,
       <<"ẍ", "Ẍ">>, <<"ẏ", "Ẏ">>, <<"ẑ", "Ẑ">>, <<"ẓ", "Ẓ">>, <<"ẕ", "Ẕ">>,
       <<"ẖ", "H", "U+0331">>, <<"ẗ", "T", "U+0308">>, <<"ẘ", "W", "U+030A">>,
       <<"ẙ", "Y", "U+030A">>, <<"ẚ", "A", "ʾ">>, <<"ẛ", "U+1E60">>,
       <<"ạ", "Ạ">>, <<"ả", "Ả">>, <<"ấ", "Ấ">>, <<"ầ", "Ầ">>, <<"ẩ", "Ẩ">>,
       <<"ẫ", "Ẫ">>, <<"ậ", "Ậ">>, <<"ắ", "Ắ">>, <<"ằ", "Ằ">>, <<"ẳ", "Ẳ">>,
       <<"ẵ", "Ẵ">>, <<"ặ", "Ặ">>, <<"ẹ", "Ẹ">>, <<"ẻ", "Ẻ">>, <<"ẽ", "Ẽ">>,
       <<"ế", "Ế">>, <<"ề", "Ề">>, <<"ể", "Ể">>, <<"ễ", "Ễ">>, <<"ệ", "Ệ">>,
       <<"ỉ", "Ỉ">>, <<"ị", "Ị">>, <<"ọ", "Ọ">>, <<"ỏ", "Ỏ">>, <<"ố", "Ố">>,
       <<"ồ", "Ồ">>, <<"ổ", "Ổ">>, <<"ỗ", "Ỗ">>, <<"ộ", "Ộ">>, <<"ớ", "Ớ">>,
       <<"ờ", "Ờ">>, <<"ở", "Ở">>, <<"ỡ", "Ỡ">>, <<"ợ", "Ợ">>, <<"ụ", "Ụ">>,
       <<"ủ", "Ủ">>, <<"ứ", "Ứ">>, <<"ừ", "Ừ">>, <<"ử", "Ử">>, <<"ữ", "Ữ">>,
       <<"ự", "Ự">>, <<"ỳ", "Ỳ">>, <<"ỵ", "Ỵ">>, <<"ỷ", "Ỷ">>, <<"ỹ", "Ỹ">>,
       <<"ỻ", "Ỻ">>, <<"ỽ", "Ỽ">>, <<"ỿ", "Ỿ">>, <<"U+1F00", "U+1F08">>,
       <<"U+1F01", "U+1F09">>, <<"U+1F02", "U+1F0A">>, <<"U+1F03", "U+1F0B">>,
       <<"U+1F04", "U+1F0C">>, <<"U+1F05", "U+1F0D">>, <<"U+1F06", "U+1F0E">>,
       <<"U+1F07", "U+1F0F">>, <<"U+1F10", "U+1F18">>, <<"U+1F11", "U+1F19">>,
       <<"U+1F12", "U+1F1A">>, <<"U+1F13", "U+1F1B">>, <<"U+1F14", "U+1F1C">>,
       <<"U+1F15", "U+1F1D">>, <<"U+1F20", "U+1F28">>, <<"U+1F21", "U+1F29">>,
       <<"U+1F22", "U+1F2A">>, <<"U+1F23", "U+1F2B">>, <<"U+1F24", "U+1F2C">>,
       <<"U+1F25", "U+1F2D">>, <<"U+1F26", "U+1F2E">>, <<"U+1F27", "U+1F2F">>,
       <<"U+1F30", "U+1F38">>, <<"U+1F31", "U+1F39">>, <<"U+1F32", "U+1F3A">>,
       <<"U+1F33", "U+1F3B">>, <<"U+1F34", "U+1F3C">>, <<"U+1F35", "U+1F3D">>,
       <<"U+1F36", "U+1F3E">>, <<"U+1F37", "U+1F3F">>, <<"U+1F40", "U+1F48">>,
       <<"U+1F41", "U+1F49">>, <<"U+1F42", "U+1F4A">>, <<"U+1F43", "U+1F4B">>,
       <<"U+1F44", "U+1F4C">>, <<"U+1F45", "U+1F4D">>,
       <<"U+1F50", "Υ", "U+0313">>, <<"U+1F51", "U+1F59">>,
       <<"U+1F52", "Υ", "U+0313", "U+0300">>, <<"U+1F53", "U+1F5B">>,
       <<"U+1F54", "Υ", "U+0313", "U+0301">>, <<"U+1F55", "U+1F5D">>,
       <<"U+1F56", "Υ", "U+0313", "U+0342">>, <<"U+1F57", "U+1F5F">>,
       <<"U+1F60", "U+1F68">>, <<"U+1F61", "U+1F69">>, <<"U+1F62", "U+1F6A">>,
       <<"U+1F63", "U+1F6B">>, <<"U+1F64", "U+1F6C">>, <<"U+1F65", "U+1F6D">>,
       <<"U+1F66", "U+1F6E">>, <<"U+1F67", "U+1F6F">>, <<"U+1F70", "Ὰ">>,
       <<"U+1F71", "Ά">>, <<"U+1F72", "Ὲ">>, <<"U+1F73", "Έ">>,
       <<"U+1F74", "Ὴ">>, <<"U+1F75", "Ή">>, <<"U+1F76", "Ὶ">>,
       <<"U+1F77", "Ί">>, <<"U+1F78", "Ὸ">>, <<"U+1F79", "Ό">>,
       <<"U+1F7A", "Ὺ">>, <<"U+1F7B", "Ύ">>, <<"U+1F7C", "Ὼ">>,
       <<"U+1F7D", "Ώ">>, <<"ᾀ", "U+1F08", "Ι">>, <<"ᾁ", "U+1F09", "Ι">>,
       <<"ᾂ", "U+1F0A", "Ι">>, <<"ᾃ", "U+1F0B", "Ι">>, <<"ᾄ", "U+1F0C", "Ι">>,
       <<"ᾅ", "U+1F0D", "Ι">>, <<"ᾆ", "U+1F0E", "Ι">>, <<"ᾇ", "U+1F0F", "Ι">>,
       <<"ᾈ", "U+1F08", "Ι">>, <<"ᾉ", "U+1F09", "Ι">>, <<"ᾊ", "U+1F0A", "Ι">>,
       <<"ᾋ", "U+1F0B", "Ι">>, <<"ᾌ", "U+1F0C", "Ι">>, <<"ᾍ", "U+1F0D", "Ι">>,
       <<"ᾎ", "U+1F0E", "Ι">>, <<"ᾏ", "U+1F0F", "Ι">>, <<"ᾐ", "U+1F28", "Ι">>,
       <<"ᾑ", "U+1F29", "Ι">>, <<"ᾒ", "U+1F2A", "Ι">>, <<"ᾓ", "U+1F2B", "Ι">>,
       <<"ᾔ", "U+1F2C", "Ι">>, <<"ᾕ", "U+1F2D", "Ι">>, <<"ᾖ", "U+1F2E", "Ι">>,
       <<"ᾗ", "U+1F2F", "Ι">>, <<"ᾘ", "U+1F28", "Ι">>, <<"ᾙ", "U+1F29", "Ι">>,
       <<"ᾚ", "U+1F2A", "Ι">>, <<"ᾛ", "U+1F2B", "Ι">>, <<"ᾜ", "U+1F2C", "Ι">>,
       <<"ᾝ", "U+1F2D", "Ι">>, <<"ᾞ", "U+1F2E", "Ι">>, <<"ᾟ", "U+1F2F", "Ι">>,
       <<"ᾠ", "U+1F68", "Ι">>, <<"ᾡ", "U+1F69", "Ι">>, <<"ᾢ", "U+1F6A", "Ι">>,
       <<"ᾣ", "U+1F6B", "Ι">>, <<"ᾤ", "U+1F6C", "Ι">>, <<"ᾥ", "U+1F6D", "Ι">>,
       <<"ᾦ", "U+1F6E", "Ι">>, <<"ᾧ", "U+1F6F", "Ι">>, <<"ᾨ", "U+1F68", "Ι">>,
       <<"ᾩ", "U+1F69", "Ι">>, <<"ᾪ", "U+1F6A", "Ι">>, <<"ᾫ", "U+1F6B", "Ι">>,
       <<"ᾬ", "U+1F6C", "Ι">>, <<"ᾭ", "U+1F6D", "Ι">>, <<"ᾮ", "U+1F6E", "Ι">>,
       <<"ᾯ", "U+1F6F", "Ι">>, <<"ᾰ", "Ᾰ">>, <<"ᾱ", "Ᾱ">>, <<"ᾲ", "Ὰ", "Ι">>,
       <<"ᾳ", "Α", "Ι">>, <<"ᾴ", "Ά", "Ι">>, <<"ᾶ", "Α", "U+0342">>,
       <<"ᾷ", "Α", "U+0342", "Ι">>, <<"ᾼ", "Α", "Ι">>, <<"ι", "Ι">>,
       <<"ῂ", "Ὴ", "Ι">>, <<"ῃ", "Η", "Ι">>, <<"ῄ", "Ή", "Ι">>,
       <<"ῆ", "Η", "U+0342">>, <<"ῇ", "Η", "U+0342", "Ι">>, <<"ῌ", "Η", "Ι">>,
       <<"ῐ", "Ῐ">>, <<"ῑ", "Ῑ">>, <<"ῒ", "Ι", "U+0308", "U+0300">>,
       <<"ΐ", "Ι", "U+0308", "U+0301">>, <<"ῖ", "Ι", "U+0342">>,
       <<"ῗ", "Ι", "U+0308", "U+0342">>, <<"ῠ", "Ῠ">>, <<"ῡ", "Ῡ">>,
       <<"ῢ", "Υ", "U+0308", "U+0300">>, <<"ΰ", "Υ", "U+0308", "U+0301">>,
       <<"ῤ", "Ρ", "U+0313">>, <<"ῥ", "Ῥ">>, <<"ῦ", "Υ", "U+0342">>,
       <<"ῧ", "Υ", "U+0308", "U+0342">>, <<"ῲ", "Ὼ", "Ι">>, <<"ῳ", "Ω", "Ι">>,
       <<"ῴ", "Ώ", "Ι">>, <<"ῶ", "Ω", "U+0342">>, <<"ῷ", "Ω", "U+0342", "Ι">>,
       <<"ῼ", "Ω", "Ι">>, <<"U+214E", "U+2132">>, <<"U+2170", "U+2160">>,
       <<"U+2171", "U+2161">>, <<"U+2172", "U+2162">>, <<"U+2173", "U+2163">>,
       <<"U+2174", "U+2164">>, <<"U+2175", "U+2165">>, <<"U+2176", "U+2166">>,
       <<"U+2177", "U+2167">>, <<"U+2178", "U+2168">>, <<"U+2179", "U+2169">>,
       <<"U+217A", "U+216A">>, <<"U+217B", "U+216B">>, <<"U+217C", "U+216C">>,
       <<"U+217D", "U+216D">>, <<"U+217E", "U+216E">>, <<"U+217F", "U+216F">>,
       <<"ↄ", "Ↄ">>, <<"ⓐ", "Ⓐ">>, <<"ⓑ", "Ⓑ">>, <<"ⓒ", "Ⓒ">>, <<"ⓓ", "Ⓓ">>,
       <<"ⓔ", "Ⓔ">>, <<"ⓕ", "Ⓕ">>, <<"ⓖ", "Ⓖ">>, <<"ⓗ", "Ⓗ">>, <<"ⓘ", "Ⓘ">>,
       <<"ⓙ", "Ⓙ">>, <<"ⓚ", "Ⓚ">>, <<"ⓛ", "Ⓛ">>, <<"ⓜ", "Ⓜ">>, <<"ⓝ", "Ⓝ">>,
       <<"ⓞ", "Ⓞ">>, <<"ⓟ", "Ⓟ">>, <<"ⓠ", "Ⓠ">>, <<"ⓡ", "Ⓡ">>, <<"ⓢ", "Ⓢ">>,
       <<"ⓣ", "Ⓣ">>, <<"ⓤ", "Ⓤ">>, <<"ⓥ", "Ⓥ">>, <<"ⓦ", "Ⓦ">>, <<"ⓧ", "Ⓧ">>,
       <<"ⓨ", "Ⓨ">>, <<"ⓩ", "Ⓩ">>, <<"U+2C30", "U+2C00">>,
       <<"U+2C31", "U+2C01">>, <<"U+2C32", "U+2C02">>, <<"U+2C33", "U+2C03">>,
       <<"U+2C34", "U+2C04">>, <<"U+2C35", "U+2C05">>, <<"U+2C36", "U+2C06">>,
       <<"U+2C37", "U+2C07">>, <<"U+2C38", "U+2C08">>, <<"U+2C39", "U+2C09">>,
       <<"U+2C3A", "U+2C0A">>, <<"U+2C3B", "U+2C0B">>, <<"U+2C3C", "U+2C0C">>,
       <<"U+2C3D", "U+2C0D">>, <<"U+2C3E", "U+2C0E">>, <<"U+2C3F", "U+2C0F">>,
       <<"U+2C40", "U+2C10">>, <<"U+2C41", "U+2C11">>, <<"U+2C42", "U+2C12">>,
       <<"U+2C43", "U+2C13">>, <<"U+2C44", "U+2C14">>, <<"U+2C45", "U+2C15">>,
       <<"U+2C46", "U+2C16">>, <<"U+2C47", "U+2C17">>, <<"U+2C48", "U+2C18">>,
       <<"U+2C49", "U+2C19">>, <<"U+2C4A", "U+2C1A">>, <<"U+2C4B", "U+2C1B">>,
       <<"U+2C4C", "U+2C1C">>, <<"U+2C4D", "U+2C1D">>, <<"U+2C4E", "U+2C1E">>,
       <<"U+2C4F", "U+2C1F">>, <<"U+2C50", "U+2C20">>, <<"U+2C51", "U+2C21">>,
       <<"U+2C52", "U+2C22">>, <<"U+2C53", "U+2C23">>, <<"U+2C54", "U+2C24">>,
       <<"U+2C55", "U+2C25">>, <<"U+2C56", "U+2C26">>, <<"U+2C57", "U+2C27">>,
       <<"U+2C58", "U+2C28">>, <<"U+2C59", "U+2C29">>, <<"U+2C5A", "U+2C2A">>,
       <<"U+2C5B", "U+2C2B">>, <<"U+2C5C", "U+2C2C">>, <<"U+2C5D", "U+2C2D">>,
       <<"U+2C5E", "U+2C2E">>, <<"U+2C5F", "U+2C2F">>, <<"U+2C61", "U+2C60">>,
       <<"U+2C65", "U+023A">>, <<"U+2C66", "U+023E">>, <<"U+2C68", "U+2C67">>,
       <<"U+2C6A", "U+2C69">>, <<"U+2C6C", "U+2C6B">>, <<"U+2C73", "U+2C72">>,
       <<"U+2C76", "U+2C75">>, <<"ⲁ", "Ⲁ">>, <<"ⲃ", "Ⲃ">>, <<"ⲅ", "Ⲅ">>,
       <<"ⲇ", "Ⲇ">>, <<"ⲉ", "Ⲉ">>, <<"ⲋ", "Ⲋ">>, <<"ⲍ", "Ⲍ">>, <<"ⲏ", "Ⲏ">>,
       <<"ⲑ", "Ⲑ">>, <<"ⲓ", "Ⲓ">>, <<"ⲕ", "Ⲕ">>, <<"ⲗ", "Ⲗ">>, <<"ⲙ", "Ⲙ">>,
       <<"ⲛ", "Ⲛ">>, <<"ⲝ", "Ⲝ">>, <<"ⲟ", "Ⲟ">>, <<"ⲡ", "Ⲡ">>, <<"ⲣ", "Ⲣ">>,
       <<"ⲥ", "Ⲥ">>, <<"ⲧ", "Ⲧ">>, <<"ⲩ", "Ⲩ">>, <<"ⲫ", "Ⲫ">>, <<"ⲭ", "Ⲭ">>,
       <<"ⲯ", "Ⲯ">>, <<"ⲱ", "Ⲱ">>, <<"ⲳ", "Ⲳ">>, <<"ⲵ", "Ⲵ">>, <<"ⲷ", "Ⲷ">>,
       <<"ⲹ", "Ⲹ">>, <<"ⲻ", "Ⲻ">>, <<"ⲽ", "Ⲽ">>, <<"ⲿ", "Ⲿ">>, <<"ⳁ", "Ⳁ">>,
       <<"ⳃ", "Ⳃ">>, <<"ⳅ", "Ⳅ">>, <<"ⳇ", "Ⳇ">>, <<"ⳉ", "Ⳉ">>, <<"ⳋ", "Ⳋ">>,
       <<"ⳍ", "Ⳍ">>, <<"ⳏ", "Ⳏ">>, <<"ⳑ", "Ⳑ">>, <<"ⳓ", "Ⳓ">>, <<"ⳕ", "Ⳕ">>,
       <<"ⳗ", "Ⳗ">>, <<"ⳙ", "Ⳙ">>, <<"ⳛ", "Ⳛ">>, <<"ⳝ", "Ⳝ">>, <<"ⳟ", "Ⳟ">>,
       <<"ⳡ", "Ⳡ">>, <<"ⳣ", "Ⳣ">>, <<"ⳬ", "Ⳬ">>, <<"ⳮ", "Ⳮ">>, <<"ⳳ", "Ⳳ">>,
       <<"U+2D00", "Ⴀ">>, <<"U+2D01", "Ⴁ">>, <<"U+2D02", "Ⴂ">>,
       <<"U+2D03", "Ⴃ">>, <<"U+2D04", "Ⴄ">>, <<"U+2D05", "Ⴅ">>,
       <<"U+2D06", "Ⴆ">>, <<"U+2D07", "Ⴇ">>, <<"U+2D08", "Ⴈ">>,
       <<"U+2D09", "Ⴉ">>, <<"U+2D0A", "Ⴊ">>, <<"U+2D0B", "Ⴋ">>,
       <<"U+2D0C", "Ⴌ">>, <<"U+2D0D", "Ⴍ">>, <<"U+2D0E", "Ⴎ">>,
       <<"U+2D0F", "Ⴏ">>, <<"U+2D10", "Ⴐ">>, <<"U+2D11", "Ⴑ">>,
       <<"U+2D12", "Ⴒ">>, <<"U+2D13", "Ⴓ">>, <<"U+2D14", "Ⴔ">>,
       <<"U+2D15", "Ⴕ">>, <<"U+2D16", "Ⴖ">>, <<"U+2D17", "Ⴗ">>,
       <<"U+2D18", "Ⴘ">>, <<"U+2D19", "Ⴙ">>, <<"U+2D1A", "Ⴚ">>,
       <<"U+2D1B", "Ⴛ">>, <<"U+2D1C", "Ⴜ">>, <<"U+2D1D", "Ⴝ">>,
       <<"U+2D1E", "Ⴞ">>, <<"U+2D1F", "Ⴟ">>, <<"U+2D20", "Ⴠ">>,
       <<"U+2D21", "Ⴡ">>, <<"U+2D22", "Ⴢ">>, <<"U+2D23", "Ⴣ">>,
       <<"U+2D24", "Ⴤ">>, <<"U+2D25", "Ⴥ">>, <<"U+2D27", "Ⴧ">>,
       <<"U+2D2D", "Ⴭ">>, <<"U+A641", "U+A640">>, <<"U+A643", "U+A642">>,
       <<"U+A645", "U+A644">>, <<"U+A647", "U+A646">>, <<"U+A649", "U+A648">>,
       <<"U+A64B", "U+A64A">>, <<"U+A64D", "U+A64C">>, <<"U+A64F", "U+A64E">>,
       <<"U+A651", "U+A650">>, <<"U+A653", "U+A652">>, <<"U+A655", "U+A654">>,
       <<"U+A657", "U+A656">>, <<"U+A659", "U+A658">>, <<"U+A65B", "U+A65A">>,
       <<"U+A65D", "U+A65C">>, <<"U+A65F", "U+A65E">>, <<"U+A661", "U+A660">>,
       <<"U+A663", "U+A662">>, <<"U+A665", "U+A664">>, <<"U+A667", "U+A666">>,
       <<"U+A669", "U+A668">>, <<"U+A66B", "U+A66A">>, <<"U+A66D", "U+A66C">>,
       <<"ꚁ", "Ꚁ">>, <<"ꚃ", "Ꚃ">>, <<"ꚅ", "Ꚅ">>, <<"ꚇ", "Ꚇ">>, <<"ꚉ", "Ꚉ">>,
       <<"ꚋ", "Ꚋ">>, <<"ꚍ", "Ꚍ">>, <<"ꚏ", "Ꚏ">>, <<"ꚑ", "Ꚑ">>, <<"ꚓ", "Ꚓ">>,
       <<"ꚕ", "Ꚕ">>, <<"ꚗ", "Ꚗ">>, <<"ꚙ", "Ꚙ">>, <<"ꚛ", "Ꚛ">>,
       <<"U+A723", "U+A722">>, <<"U+A725", "U+A724">>, <<"U+A727", "U+A726">>,
       <<"U+A729", "U+A728">>, <<"U+A72B", "U+A72A">>, <<"U+A72D", "U+A72C">>,
       <<"U+A72F", "U+A72E">>, <<"U+A733", "U+A732">>, <<"U+A735", "U+A734">>,
       <<"U+A737", "U+A736">>, <<"U+A739", "U+A738">>, <<"U+A73B", "U+A73A">>,
       <<"U+A73D", "U+A73C">>, <<"U+A73F", "U+A73E">>, <<"U+A741", "U+A740">>,
       <<"U+A743", "U+A742">>, <<"U+A745", "U+A744">>, <<"U+A747", "U+A746">>,
       <<"U+A749", "U+A748">>, <<"U+A74B", "U+A74A">>, <<"U+A74D", "U+A74C">>,
       <<"U+A74F", "U+A74E">>, <<"U+A751", "U+A750">>, <<"U+A753", "U+A752">>,
       <<"U+A755", "U+A754">>, <<"U+A757", "U+A756">>, <<"U+A759", "U+A758">>,
       <<"U+A75B", "U+A75A">>, <<"U+A75D", "U+A75C">>, <<"U+A75F", "U+A75E">>,
       <<"U+A761", "U+A760">>, <<"U+A763", "U+A762">>, <<"U+A765", "U+A764">>,
       <<"U+A767", "U+A766">>, <<"U+A769", "U+A768">>, <<"U+A76B", "U+A76A">>,
       <<"U+A76D", "U+A76C">>, <<"U+A76F", "U+A76E">>, <<"U+A77A", "U+A779">>,
       <<"U+A77C", "U+A77B">>, <<"U+A77F", "U+A77E">>, <<"ꞁ", "Ꞁ">>,
       <<"ꞃ", "Ꞃ">>, <<"ꞅ", "Ꞅ">>, <<"ꞇ", "Ꞇ">>, <<"ꞌ", "Ꞌ">>, <<"ꞑ", "Ꞑ">>,
       <<"ꞓ", "Ꞓ">>, <<"ꞔ", "Ꞔ">>, <<"ꞗ", "Ꞗ">>, <<"ꞙ", "Ꞙ">>, <<"ꞛ", "Ꞛ">>,
       <<"ꞝ", "Ꞝ">>, <<"ꞟ", "Ꞟ">>, <<"ꞡ", "Ꞡ">>, <<"ꞣ", "Ꞣ">>, <<"ꞥ", "Ꞥ">>,
       <<"ꞧ", "Ꞧ">>, <<"ꞩ", "Ꞩ">>, <<"ꞵ", "Ꞵ">>, <<"ꞷ", "Ꞷ">>, <<"ꞹ", "Ꞹ">>,
       <<"ꞻ", "Ꞻ">>, <<"ꞽ", "Ꞽ">>, <<"ꞿ", "Ꞿ">>, <<"ꟁ", "Ꟁ">>, <<"ꟃ", "Ꟃ">>,
       <<"ꟈ", "Ꟈ">>, <<"ꟊ", "Ꟊ">>, <<"ꟑ", "Ꟑ">>, <<"ꟗ", "Ꟗ">>, <<"ꟙ", "Ꟙ">>,
       <<"ꟶ", "Ꟶ">>, <<"U+AB53", "Ꭓ">>, <<"U+AB70", "Ꭰ">>, <<"U+AB71", "Ꭱ">>,
       <<"U+AB72", "Ꭲ">>, <<"U+AB73", "Ꭳ">>, <<"U+AB74", "Ꭴ">>,
       <<"U+AB75", "Ꭵ">>, <<"U+AB76", "Ꭶ">>, <<"U+AB77", "Ꭷ">>,
       <<"U+AB78", "Ꭸ">>, <<"U+AB79", "Ꭹ">>, <<"U+AB7A", "Ꭺ">>,
       <<"U+AB7B", "Ꭻ">>, <<"U+AB7C", "Ꭼ">>, <<"U+AB7D", "Ꭽ">>,
       <<"U+AB7E", "Ꭾ">>, <<"U+AB7F", "Ꭿ">>, <<"ꮀ", "Ꮀ">>, <<"ꮁ", "Ꮁ">>,
       <<"ꮂ", "Ꮂ">>, <<"ꮃ", "Ꮃ">>, <<"ꮄ", "Ꮄ">>, <<"ꮅ", "Ꮅ">>, <<"ꮆ", "Ꮆ">>,
       <<"ꮇ", "Ꮇ">>, <<"ꮈ", "Ꮈ">>, <<"ꮉ", "Ꮉ">>, <<"ꮊ", "Ꮊ">>, <<"ꮋ", "Ꮋ">>,
       <<"ꮌ", "Ꮌ">>, <<"ꮍ", "Ꮍ">>, <<"ꮎ", "Ꮎ">>, <<"ꮏ", "Ꮏ">>, <<"ꮐ", "Ꮐ">>,
       <<"ꮑ", "Ꮑ">>, <<"ꮒ", "Ꮒ">>, <<"ꮓ", "Ꮓ">>, <<"ꮔ", "Ꮔ">>, <<"ꮕ", "Ꮕ">>,
       <<"ꮖ", "Ꮖ">>, <<"ꮗ", "Ꮗ">>, <<"ꮘ", "Ꮘ">>, <<"ꮙ", "Ꮙ">>, <<"ꮚ", "Ꮚ">>,
       <<"ꮛ", "Ꮛ">>, <<"ꮜ", "Ꮜ">>, <<"ꮝ", "Ꮝ">>, <<"ꮞ", "Ꮞ">>, <<"ꮟ", "Ꮟ">>,
       <<"ꮠ", "Ꮠ">>, <<"ꮡ", "Ꮡ">>, <<"ꮢ", "Ꮢ">>, <<"ꮣ", "Ꮣ">>, <<"ꮤ", "Ꮤ">>,
       <<"ꮥ", "Ꮥ">>, <<"ꮦ", "Ꮦ">>, <<"ꮧ", "Ꮧ">>, <<"ꮨ", "Ꮨ">>, <<"ꮩ", "Ꮩ">>,
       <<"ꮪ", "Ꮪ">>, <<"ꮫ", "Ꮫ">>, <<"ꮬ", "Ꮬ">>, <<"ꮭ", "Ꮭ">>, <<"ꮮ", "Ꮮ">>,
       <<"ꮯ", "Ꮯ">>, <<"ꮰ", "Ꮰ">>, <<"ꮱ", "Ꮱ">>, <<"ꮲ", "Ꮲ">>, <<"ꮳ", "Ꮳ">>,
       <<"ꮴ", "Ꮴ">>, <<"ꮵ", "Ꮵ">>, <<"ꮶ", "Ꮶ">>, <<"ꮷ", "Ꮷ">>, <<"ꮸ", "Ꮸ">>,
       <<"ꮹ", "Ꮹ">>, <<"ꮺ", "Ꮺ">>, <<"ꮻ", "Ꮻ">>, <<"ꮼ", "Ꮼ">>, <<"ꮽ", "Ꮽ">>,
       <<"ꮾ", "Ꮾ">>, <<"ꮿ", "Ꮿ">>, <<"U+FB00", "F", "F">>,
       <<"U+FB01", "F", "I">>, <<"U+FB02", "F", "L">>,
       <<"U+FB03", "F", "F", "I">>, <<"U+FB04", "F", "F", "L">>,
       <<"U+FB05", "S", "T">>, <<"U+FB06", "S", "T">>,
       <<"U+FB13", "U+0544", "U+0546">>, <<"U+FB14", "U+0544", "U+0535">>,
       <<"U+FB15", "U+0544", "U+053B">>, <<"U+FB16", "U+054E", "U+0546">>,
       <<"U+FB17", "U+0544", "U+053D">>, <<"U+FF41", "U+FF21">>,
       <<"U+FF42", "U+FF22">>, <<"U+FF43", "U+FF23">>, <<"U+FF44", "U+FF24">>,
       <<"U+FF45", "U+FF25">>, <<"U+FF46", "U+FF26">>, <<"U+FF47", "U+FF27">>,
       <<"U+FF48", "U+FF28">>, <<"U+FF49", "U+FF29">>, <<"U+FF4A", "U+FF2A">>,
       <<"U+FF4B", "U+FF2B">>, <<"U+FF4C", "U+FF2C">>, <<"U+FF4D", "U+FF2D">>,
       <<"U+FF4E", "U+FF2E">>, <<"U+FF4F", "U+FF2F">>, <<"U+FF50", "U+FF30">>,
       <<"U+FF51", "U+FF31">>, <<"U+FF52", "U+FF32">>, <<"U+FF53", "U+FF33">>,
       <<"U+FF54", "U+FF34">>, <<"U+FF55", "U+FF35">>, <<"U+FF56", "U+FF36">>,
       <<"U+FF57", "U+FF37">>, <<"U+FF58", "U+FF38">>, <<"U+FF59", "U+FF39">>,
       <<"U+FF5A", "U+FF3A">>, <<"U+10428", "U+10400">>,
       <<"U+10429", "U+10401">>, <<"U+1042A", "U+10402">>,
       <<"U+1042B", "U+10403">>, <<"U+1042C", "U+10404">>,
       <<"U+1042D", "U+10405">>, <<"U+1042E", "U+10406">>,
       <<"U+1042F", "U+10407">>, <<"U+10430", "U+10408">>,
       <<"U+10431", "U+10409">>, <<"U+10432", "U+1040A">>,
       <<"U+10433", "U+1040B">>, <<"U+10434", "U+1040C">>,
       <<"U+10435", "U+1040D">>, <<"U+10436", "U+1040E">>,
       <<"U+10437", "U+1040F">>, <<"U+10438", "U+10410">>,
       <<"U+10439", "U+10411">>, <<"U+1043A", "U+10412">>,
       <<"U+1043B", "U+10413">>, <<"U+1043C", "U+10414">>,
       <<"U+1043D", "U+10415">>, <<"U+1043E", "U+10416">>,
       <<"U+1043F", "U+10417">>, <<"U+10440", "U+10418">>,
       <<"U+10441", "U+10419">>, <<"U+10442", "U+1041A">>,
       <<"U+10443", "U+1041B">>, <<"U+10444", "U+1041C">>,
       <<"U+10445", "U+1041D">>, <<"U+10446", "U+1041E">>,
       <<"U+10447", "U+1041F">>, <<"U+10448", "U+10420">>,
       <<"U+10449", "U+10421">>, <<"U+1044A", "U+10422">>,
       <<"U+1044B", "U+10423">>, <<"U+1044C", "U+10424">>,
       <<"U+1044D", "U+10425">>, <<"U+1044E", "U+10426">>,
       <<"U+1044F", "U+10427">>, <<"U+104D8", "U+104B0">>,
       <<"U+104D9", "U+104B1">>, <<"U+104DA", "U+104B2">>,
       <<"U+104DB", "U+104B3">>, <<"U+104DC", "U+104B4">>,
       <<"U+104DD", "U+104B5">>, <<"U+104DE", "U+104B6">>,
       <<"U+104DF", "U+104B7">>, <<"U+104E0", "U+104B8">>,
       <<"U+104E1", "U+104B9">>, <<"U+104E2", "U+104BA">>,
       <<"U+104E3", "U+104BB">>, <<"U+104E4", "U+104BC">>,
       <<"U+104E5", "U+104BD">>, <<"U+104E6", "U+104BE">>,
       <<"U+104E7", "U+104BF">>, <<"U+104E8", "U+104C0">>,
       <<"U+104E9", "U+104C1">>, <<"U+104EA", "U+104C2">>,
       <<"U+104EB", "U+104C3">>, <<"U+104EC", "U+104C4">>,
       <<"U+104ED", "U+104C5">>, <<"U+104EE", "U+104C6">>,
       <<"U+104EF", "U+104C7">>, <<"U+104F0", "U+104C8">>,
       <<"U+104F1", "U+104C9">>, <<"U+104F2", "U+104CA">>,
       <<"U+104F3", "U+104CB">>, <<"U+104F4", "U+104CC">>,
       <<"U+104F5", "U+104CD">>, <<"U+104F6", "U+104CE">>,
       <<"U+104F7", "U+104CF">>, <<"U+104F8", "U+104D0">>,
       <<"U+104F9", "U+104D1">>, <<"U+104FA", "U+104D2">>,
       <<"U+104FB", "U+104D3">>, <<"U+10597", "U+10570">>,
       <<"U+10598", "U+10571">>, <<"U+10599", "U+10572">>,
       <<"U+1059A", "U+10573">>, <<"U+1059B", "U+10574">>,
       <<"U+1059C", "U+10575">>, <<"U+1059D", "U+10576">>,
       <<"U+1059E", "U+10577">>, <<"U+1059F", "U+10578">>,
       <<"U+105A0", "U+10579">>, <<"U+105A1", "U+1057A">>,
       <<"U+105A3", "U+1057C">>, <<"U+105A4", "U+1057D">>,
       <<"U+105A5", "U+1057E">>, <<"U+105A6", "U+1057F">>,
       <<"U+105A7", "U+10580">>, <<"U+105A8", "U+10581">>,
       <<"U+105A9", "U+10582">>, <<"U+105AA", "U+10583">>,
       <<"U+105AB", "U+10584">>, <<"U+105AC", "U+10585">>,
       <<"U+105AD", "U+10586">>, <<"U+105AE", "U+10587">>,
       <<"U+105AF", "U+10588">>, <<"U+105B0", "U+10589">>,
       <<"U+105B1", "U+1058A">>, <<"U+105B3", "U+1058C">>,
       <<"U+105B4", "U+1058D">>, <<"U+105B5", "U+1058E">>,
       <<"U+105B6", "U+1058F">>, <<"U+105B7", "U+10590">>,
       <<"U+105B8", "U+10591">>, <<"U+105B9", "U+10592">>,
       <<"U+105BB", "U+10594">>, <<"U+105BC", "U+10595">>,
       <<"U+10CC0", "U+10C80">>, <<"U+10CC1", "U+10C81">>,
       <<"U+10CC2", "U+10C82">>, <<"U+10CC3", "U+10C83">>,
       <<"U+10CC4", "U+10C84">>, <<"U+10CC5", "U+10C85">>,
       <<"U+10CC6", "U+10C86">>, <<"U+10CC7", "U+10C87">>,
       <<"U+10CC8", "U+10C88">>, <<"U+10CC9", "U+10C89">>,
       <<"U+10CCA", "U+10C8A">>, <<"U+10CCB", "U+10C8B">>,
       <<"U+10CCC", "U+10C8C">>, <<"U+10CCD", "U+10C8D">>,
       <<"U+10CCE", "U+10C8E">>, <<"U+10CCF", "U+10C8F">>,
       <<"U+10CD0", "U+10C90">>, <<"U+10CD1", "U+10C91">>,
       <<"U+10CD2", "U+10C92">>, <<"U+10CD3", "U+10C93">>,
       <<"U+10CD4", "U+10C94">>, <<"U+10CD5", "U+10C95">>,
       <<"U+10CD6", "U+10C96">>, <<"U+10CD7", "U+10C97">>,
       <<"U+10CD8", "U+10C98">>, <<"U+10CD9", "U+10C99">>,
       <<"U+10CDA", "U+10C9A">>, <<"U+10CDB", "U+10C9B">>,
       <<"U+10CDC", "U+10C9C">>, <<"U+10CDD", "U+10C9D">>,
       <<"U+10CDE", "U+10C9E">>, <<"U+10CDF", "U+10C9F">>,
       <<"U+10CE0", "U+10CA0">>, <<"U+10CE1", "U+10CA1">>,
       <<"U+10CE2", "U+10CA2">>, <<"U+10CE3", "U+10CA3">>,
       <<"U+10CE4", "U+10CA4">>, <<"U+10CE5", "U+10CA5">>,
       <<"U+10CE6", "U+10CA6">>, <<"U+10CE7", "U+10CA7">>,
       <<"U+10CE8", "U+10CA8">>, <<"U+10CE9", "U+10CA9">>,
       <<"U+10CEA", "U+10CAA">>, <<"U+10CEB", "U+10CAB">>,
       <<"U+10CEC", "U+10CAC">>, <<"U+10CED", "U+10CAD">>,
       <<"U+10CEE", "U+10CAE">>, <<"U+10CEF", "U+10CAF">>,
       <<"U+10CF0", "U+10CB0">>, <<"U+10CF1", "U+10CB1">>,
       <<"U+10CF2", "U+10CB2">>, <<"U+118C0", "U+118A0">>,
       <<"U+118C1", "U+118A1">>, <<"U+118C2", "U+118A2">>,
       <<"U+118C3", "U+118A3">>, <<"U+118C4", "U+118A4">>,
       <<"U+118C5", "U+118A5">>, <<"U+118C6", "U+118A6">>,
       <<"U+118C7", "U+118A7">>, <<"U+118C8", "U+118A8">>,
       <<"U+118C9", "U+118A9">>, <<"U+118CA", "U+118AA">>,
       <<"U+118CB", "U+118AB">>, <<"U+118CC", "U+118AC">>,
       <<"U+118CD", "U+118AD">>, <<"U+118CE", "U+118AE">>,
       <<"U+118CF", "U+118AF">>, <<"U+118D0", "U+118B0">>,
       <<"U+118D1", "U+118B1">>, <<"U+118D2", "U+118B2">>,
       <<"U+118D3", "U+118B3">>, <<"U+118D4", "U+118B4">>,
       <<"U+118D5", "U+118B5">>, <<"U+118D6", "U+118B6">>,
       <<"U+118D7", "U+118B7">>, <<"U+118D8", "U+118B8">>,
       <<"U+118D9", "U+118B9">>, <<"U+118DA", "U+118BA">>,
       <<"U+118DB", "U+118BB">>, <<"U+118DC", "U+118BC">>,
       <<"U+118DD", "U+118BD">>, <<"U+118DE", "U+118BE">>,
       <<"U+118DF", "U+118BF">>, <<"U+16E60", "U+16E40">>,
       <<"U+16E61", "U+16E41">>, <<"U+16E62", "U+16E42">>,
       <<"U+16E63", "U+16E43">>, <<"U+16E64", "U+16E44">>,
       <<"U+16E65", "U+16E45">>, <<"U+16E66", "U+16E46">>,
       <<"U+16E67", "U+16E47">>, <<"U+16E68", "U+16E48">>,
       <<"U+16E69", "U+16E49">>, <<"U+16E6A", "U+16E4A">>,
       <<"U+16E6B", "U+16E4B">>, <<"U+16E6C", "U+16E4C">>,
       <<"U+16E6D", "U+16E4D">>, <<"U+16E6E", "U+16E4E">>,
       <<"U+16E6F", "U+16E4F">>, <<"U+16E70", "U+16E50">>,
       <<"U+16E71", "U+16E51">>, <<"U+16E72", "U+16E52">>,
       <<"U+16E73", "U+16E53">>, <<"U+16E74", "U+16E54">>,
       <<"U+16E75", "U+16E55">>, <<"U+16E76", "U+16E56">>,
       <<"U+16E77", "U+16E57">>, <<"U+16E78", "U+16E58">>,
       <<"U+16E79", "U+16E59">>, <<"U+16E7A", "U+16E5A">>,
       <<"U+16E7B", "U+16E5B">>, <<"U+16E7C", "U+16E5C">>,
       <<"U+16E7D", "U+16E5D">>, <<"U+16E7E", "U+16E5E">>,
       <<"U+16E7F", "U+16E5F">>, <<"U+1E922", "U+1E900">>,
       <<"U+1E923", "U+1E901">>, <<"U+1E924", "U+1E902">>,
       <<"U+1E925", "U+1E903">>, <<"U+1E926", "U+1E904">>,
       <<"U+1E927", "U+1E905">>, <<"U+1E928", "U+1E906">>,
       <<"U+1E929", "U+1E907">>, <<"U+1E92A", "U+1E908">>,
       <<"U+1E92B", "U+1E909">>, <<"U+1E92C", "U+1E90A">>,
       <<"U+1E92D", "U+1E90B">>, <<"U+1E92E", "U+1E90C">>,
       <<"U+1E92F", "U+1E90D">>, <<"U+1E930", "U+1E90E">>,
       <<"U+1E931", "U+1E90F">>, <<"U+1E932", "U+1E910">>,
       <<"U+1E933", "U+1E911">>, <<"U+1E934", "U+1E912">>,
       <<"U+1E935", "U+1E913">>, <<"U+1E936", "U+1E914">>,
       <<"U+1E937", "U+1E915">>, <<"U+1E938", "U+1E916">>,
       <<"U+1E939", "U+1E917">>, <<"U+1E93A", "U+1E918">>,
       <<"U+1E93B", "U+1E919">>, <<"U+1E93C", "U+1E91A">>,
       <<"U+1E93D", "U+1E91B">>, <<"U+1E93E", "U+1E91C">>,
       <<"U+1E93F", "U+1E91D">>, <<"U+1E940", "U+1E91E">>,
       <<"U+1E941", "U+1E91F">>, <<"U+1E942", "U+1E920">>,
       <<"U+1E943", "U+1E921">> >>

\* the cased characters that neither lower() nor upper() changes
UnmappedCased ==
    { "ª", "º", "U+0138", "ƍ", "ƛ", "ƪ", "ƫ", "ƺ", "ƾ", "U+0221", "U+0234",
      "U+0235", "U+0236", "U+0237", "U+0238", "U+0239", "U+0255", "U+0258",
      "U+025A", "U+025D", "U+025E", "U+025F", "U+0262", "U+0264", "U+0267",
      "U+026D", "U+026E", "U+0270", "U+0273", "U+0274", "U+0276", "U+0277",
      "U+0278", "U+0279", "U+027A", "U+027B", "U+027C", "U+027E", "U+027F",
      "ʁ", "ʄ", "ʅ", "ʆ", "ʍ", "ʎ", "ʏ", "ʐ", "ʑ", "ʓ", "ʕ", "ʖ", "ʗ", "ʘ",
      "ʙ", "ʚ", "ʛ", "ʜ", "ʟ", "ʠ", "ʡ", "ʢ", "ʣ", "ʤ", "ʥ", "ʦ", "ʧ", "ʨ",
      "ʩ", "ʪ", "ʫ", "ʬ", "ʭ", "ʮ", "ʯ", "ʰ", "ʱ", "ʲ", "ʳ", "ʴ", "ʵ", "ʶ",
      "ʷ", "ʸ", "ˀ", "ˁ", "ˠ", "ˡ", "ˢ", "ˣ", "ˤ", "U+037A", "ϒ", "ϓ", "ϔ",
      "ϼ", "U+0560", "ֈ", "U+1D00", "U+1D01", "U+1D02", "U+1D03", "U+1D04",
      "U+1D05", "U+1D06", "U+1D07", "U+1D08", "U+1D09", "U+1D0A", "U+1D0B",
      "U+1D0C", "U+1D0D", "U+1D0E", "U+1D0F", "U+1D10", "U+1D11", "U+1D12",
      "U+1D13", "U+1D14", "U+1D15", "U+1D16", "U+1D17", "U+1D18", "U+1D19",
      "U+1D1A", "U+1D1B", "U+1D1C", "U+1D1D", "U+1D1E", "U+1D1F", "U+1D20",
      "U+1D21", "U+1D22", "U+1D23", "U+1D24", "U+1D25", "U+1D26", "U+1D27",
      "U+1D28", "U+1D29", "U+1D2A", "U+1D2B", "U+1D2C", "U+1D2D", "U+1D2E",
      "U+1D2F", "U+1D30", "U+1D31", "U+1D32", "U+1D33", "U+1D34", "U+1D35",
      "U+1D36", "U+1D37", "U+1D38", "U+1D39", "U+1D3A", "U+1D3B", "U+1D3C",
      "U+1D3D", "U+1D3E", "U+1D3F", "U+1D40", "U+1D41", "U+1D42", "U+1D43",
      "U+1D44", "U+1D45", "U+1D46", "U+1D47", "U+1D48", "U+1D49", "U+1D4A",
      "U+1D4B", "U+1D4C", "U+1D4D", "U+1D4E", "U+1D4F", "U+1D50", "U+1D51",
      "U+1D52", "U+1D53", "U+1D54", "U+1D55", "U+1D56", "U+1D57", "U+1D58",
      "U+1D59", "U+1D5A", "U+1D5B", "U+1D5C", "U+1D5D", "U+1D5E", "U+1D5F",
      "U+1D60", "U+1D61", "U+1D62", "U+1D63", "U+1D64", "U+1D65", "U+1D66",
      "U+1D67", "U+1D68", "U+1D69", "U+1D6A", "U+1D6B", "U+1D6C", "U+1D6D",
      "U+1D6E", "U+1D6F", "U+1D70", "U+1D71", "U+1D72", "U+1D73", "U+1D74",
      "U+1D75", "U+1D76", "U+1D77", "U+1D78", "U+1D7A", "U+1D7B", "U+1D7C",
      "U+1D7E", "U+1D7F", "ᶀ", "ᶁ", "ᶂ", "ᶃ", "ᶄ", "ᶅ", "ᶆ", "ᶇ", "ᶈ", "ᶉ",
      "ᶊ", "ᶋ", "ᶌ", "ᶍ", "ᶏ", "ᶐ", "ᶑ", "ᶒ", "ᶓ", "ᶔ", "ᶕ", "ᶖ", "ᶗ", "ᶘ",
      "ᶙ", "ᶚ", "ᶛ", "ᶜ", "ᶝ", "ᶞ", "ᶟ", "ᶠ", "ᶡ", "ᶢ", "ᶣ", "ᶤ", "ᶥ", "ᶦ",
      "ᶧ", "ᶨ", "ᶩ", "ᶪ", "ᶫ", "ᶬ", "ᶭ", "ᶮ", "ᶯ", "ᶰ", "ᶱ", "ᶲ", "ᶳ", "ᶴ",
      "ᶵ", "ᶶ", "ᶷ", "ᶸ", "ᶹ", "ᶺ", "ᶻ", "ᶼ", "ᶽ", "ᶾ", "ᶿ", "ẜ", "ẝ", "ẟ",
      "U+2071", "U+207F", "ₐ", "ₑ", "ₒ", "ₓ", "ₔ", "ₕ", "ₖ", "ₗ", "ₘ", "ₙ",
      "ₚ", "ₛ", "ₜ", "U+2102", "U+2107", "U+210A", "U+210B", "U+210C",
      "U+210D", "U+210E", "U+210F", "U+2110", "U+2111", "U+2112", "U+2113",
      "U+2115", "U+2119", "U+211A", "U+211B", "U+211C", "U+211D", "U+2124",
      "U+2128", "U+212C", "U+212D", "U+212F", "U+2130", "U+2131", "U+2133",
      "U+2134", "U+2139", "U+213C", "U+213D", "U+213E", "U+213F", "U+2145",
      "U+2146", "U+2147", "U+2148", "U+2149", "U+2C71", "U+2C74", "U+2C77",
      "U+2C78", "U+2C79", "U+2C7A", "U+2C7B", "U+2C7C", "U+2C7D", "ⳤ", "ꚜ",
      "ꚝ", "U+A730", "U+A731", "U+A770", "U+A771", "U+A772", "U+A773",
      "U+A774", "U+A775", "U+A776", "U+A777", "U+A778", "ꞎ", "ꞕ", "ꞯ", "ꟓ",
      "ꟕ", "ꟸ", "ꟹ", "ꟺ", "U+AB30", "U+AB31", "U+AB32", "U+AB33", "U+AB34",
      "U+AB35", "U+AB36", "U+AB37", "U+AB38", "U+AB39", "U+AB3A", "U+AB3B",
      "U+AB3C", "U+AB3D", "U+AB3E", "U+AB3F", "U+AB40", "U+AB41", "U+AB42",
      "U+AB43", "U+AB44", "U+AB45", "U+AB46", "U+AB47", "U+AB48", "U+AB49",
      "U+AB4A", "U+AB4B", "U+AB4C", "U+AB4D", "U+AB4E", "U+AB4F", "U+AB50",
      "U+AB51", "U+AB52", "U+AB54", "U+AB55", "U+AB56", "U+AB57", "U+AB58",
      "U+AB59", "U+AB5A", "U+AB5C", "U+AB5D", "U+AB5E", "U+AB5F", "U+AB60",
      "U+AB61", "U+AB62", "U+AB63", "U+AB64", "U+AB65", "U+AB66", "U+AB67",
      "U+AB68", "U+10780", "U+10783", "U+10784", "U+10785", "U+10787",
      "U+10788", "U+10789", "U+1078A", "U+1078B", "U+1078C", "U+1078D",
      "U+1078E", "U+1078F", "U+10790", "U+10791", "U+10792", "U+10793",
      "U+10794", "U+10795", "U+10796", "U+10797", "U+10798", "U+10799",
      "U+1079A", "U+1079B", "U+1079C", "U+1079D", "U+1079E", "U+1079F",
      "U+107A0", "U+107A1", "U+107A2", "U+107A3", "U+107A4", "U+107A5",
      "U+107A6", "U+107A7", "U+107A8", "U+107A9", "U+107AA", "U+107AB",
      "U+107AC", "U+107AD", "U+107AE", "U+107AF", "U+107B0", "U+107B2",
      "U+107B3", "U+107B4", "U+107B5", "U+107B6", "U+107B7", "U+107B8",
      "U+107B9", "U+107BA", "U+1D400", "U+1D401", "U+1D402", "U+1D403",
      "U+1D404", "U+1D405", "U+1D406", "U+1D407", "U+1D408", "U+1D409",
      "U+1D40A", "U+1D40B", "U+1D40C", "U+1D40D", "U+1D40E", "U+1D40F",
      "U+1D410", "U+1D411", "U+1D412", "U+1D413", "U+1D414", "U+1D415",
      "U+1D416", "U+1D417", "U+1D418", "U+1D419", "U+1D41A", "U+1D41B",
      "U+1D41C", "U+1D41D", "U+1D41E", "U+1D41F", "U+1D420", "U+1D421",
      "U+1D422", "U+1D423", "U+1D424", "U+1D425", "U+1D426", "U+1D427",
      "U+1D428", "U+1D429", "U+1D42A", "U+1D42B", "U+1D42C", "U+1D42D",
      "U+1D42E", "U+1D42F", "U+1D430", "U+1D431", "U+1D432", "U+1D433",
      "U+1D434", "U+1D435", "U+1D436", "U+1D437", "U+1D438", "U+1D439",
      "U+1D43A", "U+1D43B", "U+1D43C", "U+1D43D", "U+1D43E", "U+1D43F",
      "U+1D440", "U+1D441", "U+1D442", "U+1D443", "U+1D444", "U+1D445",
      "U+1D446", "U+1D447", "U+1D448", "U+1D449", "U+1D44A", "U+1D44B",
      "U+1D44C", "U+1D44D", "U+1D44E", "U+1D44F", "U+1D450", "U+1D451",
      "U+1D452", "U+1D453", "U+1D454", "U+1D456", "U+1D457", "U+1D458",
      "U+1D459", "U+1D45A", "U+1D45B", "U+1D45C", "U+1D45D", "U+1D45E",
      "U+1D45F", "U+1D460", "U+1D461", "U+1D462", "U+1D463", "U+1D464",
      "U+1D465", "U+1D466", "U+1D467", "U+1D468", "U+1D469", "U+1D46A",
      "U+1D46B", "U+1D46C", "U+1D46D", "U+1D46E", "U+1D46F", "U+1D470",
      "U+1D471", "U+1D472", "U+1D473", "U+1D474", "U+1D475", "U+1D476",
      "U+1D477", "U+1D478", "U+1D479", "U+1D47A", "U+1D47B", "U+1D47C",
      "U+1D47D", "U+1D47E", "U+1D47F", "U+1D480", "U+1D481", "U+1D482",
      "U+1D483", "U+1D484", "U+1D485", "U+1D486", "U+1D487", "U+1D488",
      "U+1D489", "U+1D48A", "U+1D48B", "U+1D48C", "U+1D48D", "U+1D48E",
      "U+1D48F", "U+1D490", "U+1D491", "U+1D492", "U+1D493", "U+1D494",
      "U+1D495", "U+1D496", "U+1D497", "U+1D498", "U+1D499", "U+1D49A",
      "U+1D49B", "U+1D49C", "U+1D49E", "U+1D49F", "U+1D4A2", "U+1D4A5",
      "U+1D4A6", "U+1D4A9", "U+1D4AA", "U+1D4AB", "U+1D4AC", "U+1D4AE",
      "U+1D4AF", "U+1D4B0", "U+1D4B1", "U+1D4B2", "U+1D4B3", "U+1D4B4",
      "U+1D4B5", "U+1D4B6", "U+1D4B7", "U+1D4B8", "U+1D4B9", "U+1D4BB",
      "U+1D4BD", "U+1D4BE", "U+1D4BF", "U+1D4C0", "U+1D4C1", "U+1D4C2",
      "U+1D4C3", "U+1D4C5", "U+1D4C6", "U+1D4C7", "U+1D4C8", "U+1D4C9",
      "U+1D4CA", "U+1D4CB", "U+1D4CC", "U+1D4CD", "U+1D4CE", "U+1D4CF",
      "U+1D4D0", "U+1D4D1", "U+1D4D2", "U+1D4D3", "U+1D4D4", "U+1D4D5",
      "U+1D4D6", "U+1D4D7", "U+1D4D8", "U+1D4D9", "U+1D4DA", "U+1D4DB",
      "U+1D4DC", "U+1D4DD", "U+1D4DE", "U+1D4DF", "U+1D4E0", "U+1D4E1",
      "U+1D4E2", "U+1D4E3", "U+1D4E4", "U+1D4E5", "U+1D4E6", "U+1D4E7",
      "U+1D4E8", "U+1D4E9", "U+1D4EA", "U+1D4EB", "U+1D4EC", "U+1D4ED",
      "U+1D4EE", "U+1D4EF", "U+1D4F0", "U+1D4F1", "U+1D4F2", "U+1D4F3",
      "U+1D4F4", "U+1D4F5", "U+1D4F6", "U+1D4F7", "U+1D4F8", "U+1D4F9",
      "U+1D4FA", "U+1D4FB", "U+1D4FC", "U+1D4FD", "U+1D4FE", "U+1D4FF",
      "U+1D500", "U+1D501", "U+1D502", "U+1D503", "U+1D504", "U+1D505",
      "U+1D507", "U+1D508", "U+1D509", "U+1D50A", "U+1D50D", "U+1D50E",
      "U+1D50F", "U+1D510", "U+1D511", "U+1D512", "U+1D513", "U+1D514",
      "U+1D516", "U+1D517", "U+1D518", "U+1D519", "U+1D51A", "U+1D51B",
      "U+1D51C", "U+1D51E", "U+1D51F", "U+1D520", "U+1D521", "U+1D522",
      "U+1D523", "U+1D524", "U+1D525", "U+1D526", "U+1D527", "U+1D528",
      "U+1D529", "U+1D52A", "U+1D52B", "U+1D52C", "U+1D52D", "U+1D52E",
      "U+1D52F", "U+1D530", "U+1D531", "U+1D532", "U+1D533", "U+1D534",
      "U+1D535", "U+1D536", "U+1D537", "U+1D538", "U+1D539", "U+1D53B",
      "U+1D53C", "U+1D53D", "U+1D53E", "U+1D540", "U+1D541", "U+1D542",
      "U+1D543", "U+1D544", "U+1D546", "U+1D54A", "U+1D54B", "U+1D54C",
      "U+1D54D", "U+1D54E", "U+1D54F", "U+1D550", "U+1D552", "U+1D553",
      "U+1D554", "U+1D555", "U+1D556", "U+1D557", "U+1D558", "U+1D559",
      "U+1D55A", "U+1D55B", "U+1D55C", "U+1D55D", "U+1D55E", "U+1D55F",
      "U+1D560", "U+1D561", "U+1D562", "U+1D563", "U+1D564", "U+1D565",
      "U+1D566", "U+1D567", "U+1D568", "U+1D569", "U+1D56A", "U+1D56B",
      "U+1D56C", "U+1D56D", "U+1D56E", "U+1D56F", "U+1D570", "U+1D571",
      "U+1D572", "U+1D573", "U+1D574", "U+1D575", "U+1D576", "U+1D577",
      "U+1D578", "U+1D579", "U+1D57A", "U+1D57B", "U+1D57C", "U+1D57D",
      "U+1D57E", "U+1D57F", "U+1D580", "U+1D581", "U+1D582", "U+1D583",
      "U+1D584", "U+1D585", "U+1D586", "U+1D587", "U+1D588", "U+1D589",
      "U+1D58A", "U+1D58B", "U+1D58C", "U+1D58D", "U+1D58E", "U+1D58F",
      "U+1D590", "U+1D591", "U+1D592", "U+1D593", "U+1D594", "U+1D595",
      "U+1D596", "U+1D597", "U+1D598", "U+1D599", "U+1D59A", "U+1D59B",
      "U+1D59C", "U+1D59D", "U+1D59E", "U+1D59F", "U+1D5A0", "U+1D5A1",
      "U+1D5A2", "U+1D5A3", "U+1D5A4", "U+1D5A5", "U+1D5A6", "U+1D5A7",
      "U+1D5A8", "U+1D5A9", "U+1D5AA", "U+1D5AB", "U+1D5AC", "U+1D5AD",
      "U+1D5AE", "U+1D5AF", "U+1D5B0", "U+1D5B1", "U+1D5B2", "U+1D5B3",
      "U+1D5B4", "U+1D5B5", "U+1D5B6", "U+1D5B7", "U+1D5B8", "U+1D5B9",
      "U+1D5BA", "U+1D5BB", "U+1D5BC", "U+1D5BD", "U+1D5BE", "U+1D5BF",
      "U+1D5C0", "U+1D5C1", "U+1D5C2", "U+1D5C3", "U+1D5C4", "U+1D5C5",
      "U+1D5C6", "U+1D5C7", "U+1D5C8", "U+1D5C9", "U+1D5CA", "U+1D5CB",
      "U+1D5CC", "U+1D5CD", "U+1D5CE", "U+1D5CF", "U+1D5D0", "U+1D5D1",
      "U+1D5D2", "U+1D5D3", "U+1D5D4", "U+1D5D5", "U+1D5D6", "U+1D5D7",
      "U+1D5D8", "U+1D5D9", "U+1D5DA", "U+1D5DB", "U+1D5DC", "U+1D5DD",
      "U+1D5DE", "U+1D5DF", "U+1D5E0", "U+1D5E1", "U+1D5E2", "U+1D5E3",
      "U+1D5E4", "U+1D5E5", "U+1D5E6", "U+1D5E7", "U+1D5E8", "U+1D5E9",
      "U+1D5EA", "U+1D5EB", "U+1D5EC", "U+1D5ED", "U+1D5EE", "U+1D5EF",
      "U+1D5F0", "U+1D5F1", "U+1D5F2", "U+1D5F3", "U+1D5F4", "U+1D5F5",
      "U+1D5F6", "U+1D5F7", "U+1D5F8", "U+1D5F9", "U+1D5FA", "U+1D5FB",
      "U+1D5FC", "U+1D5FD", "U+1D5FE", "U+1D5FF", "U+1D600", "U+1D601",
      "U+1D602", "U+1D603", "U+1D604", "U+1D605", "U+1D606", "U+1D607",
      "U+1D608", "U+1D609", "U+1D60A", "U+1D60B", "U+1D60C", "U+1D60D",
      "U+1D60E", "U+1D60F", "U+1D610", "U+1D611", "U+1D612", "U+1D613",
      "U+1D614", "U+1D615", "U+1D616", "U+1D617", "U+1D618", "U+1D619",
      "U+1D61A", "U+1D61B", "U+1D61C", "U+1D61D", "U+1D61E", "U+1D61F",
      "U+1D620", "U+1D621", "U+1D622", "U+1D623", "U+1D624", "U+1D625",
      "U+1D626", "U+1D627", "U+1D628", "U+1D629", "U+1D62A", "U+1D62B",
      "U+1D62C", "U+1D62D", "U+1D62E", "U+1D62F", "U+1D630", "U+1D631",
      "U+1D632", "U+1D633", "U+1D634", "U+1D635", "U+1D636", "U+1D637",
      "U+1D638", "U+1D639", "U+1D63A", "U+1D63B", "U+1D63C", "U+1D63D",
      "U+1D63E", "U+1D63F", "U+1D640", "U+1D641", "U+1D642", "U+1D643",
      "U+1D644", "U+1D645", "U+1D646", "U+1D647", "U+1D648", "U+1D649",
      "U+1D64A", "U+1D64B", "U+1D64C", "U+1D64D", "U+1D64E", "U+1D64F",
      "U+1D650", "U+1D651", "U+1D652", "U+1D653", "U+1D654", "U+1D655",
      "U+1D656", "U+1D657", "U+1D658", "U+1D659", "U+1D65A", "U+1D65B",
      "U+1D65C", "U+1D65D", "U+1D65E", "U+1D65F", "U+1D660", "U+1D661",
      "U+1D662", "U+1D663", "U+1D664", "U+1D665", "U+1D666", "U+1D667",
      "U+1D668", "U+1D669", "U+1D66A", "U+1D66B", "U+1D66C", "U+1D66D",
      "U+1D66E", "U+1D66F", "U+1D670", "U+1D671", "U+1D672", "U+1D673",
      "U+1D674", "U+1D675", "U+1D676", "U+1D677", "U+1D678", "U+1D679",
      "U+1D67A", "U+1D67B", "U+1D67C", "U+1D67D", "U+1D67E", "U+1D67F",
      "U+1D680", "U+1D681", "U+1D682", "U+1D683", "U+1D684", "U+1D685",
      "U+1D686", "U+1D687", "U+1D688", "U+1D689", "U+1D68A", "U+1D68B",
      "U+1D68C", "U+1D68D", "U+1D68E", "U+1D68F", "U+1D690", "U+1D691",
      "U+1D692", "U+1D693", "U+1D694", "U+1D695", "U+1D696", "U+1D697",
      "U+1D698", "U+1D699", "U+1D69A", "U+1D69B", "U+1D69C", "U+1D69D",
      "U+1D69E", "U+1D69F", "U+1D6A0", "U+1D6A1", "U+1D6A2", "U+1D6A3",
      "U+1D6A4", "U+1D6A5", "U+1D6A8", "U+1D6A9", "U+1D6AA", "U+1D6AB",
      "U+1D6AC", "U+1D6AD", "U+1D6AE", "U+1D6AF", "U+1D6B0", "U+1D6B1",
      "U+1D6B2", "U+1D6B3", "U+1D6B4", "U+1D6B5", "U+1D6B6", "U+1D6B7",
      "U+1D6B8", "U+1D6B9", "U+1D6BA", "U+1D6BB", "U+1D6BC", "U+1D6BD",
      "U+1D6BE", "U+1D6BF", "U+1D6C0", "U+1D6C2", "U+1D6C3", "U+1D6C4",
      "U+1D6C5", "U+1D6C6", "U+1D6C7", "U+1D6C8", "U+1D6C9", "U+1D6CA",
      "U+1D6CB", "U+1D6CC", "U+1D6CD", "U+1D6CE", "U+1D6CF", "U+1D6D0",
      "U+1D6D1", "U+1D6D2", "U+1D6D3", "U+1D6D4", "U+1D6D5", "U+1D6D6",
      "U+1D6D7", "U+1D6D8", "U+1D6D9", "U+1D6DA", "U+1D6DC", "U+1D6DD",
      "U+1D6DE", "U+1D6DF", "U+1D6E0", "U+1D6E1", "U+1D6E2", "U+1D6E3",
      "U+1D6E4", "U+1D6E5", "U+1D6E6", "U+1D6E7", "U+1D6E8", "U+1D6E9",
      "U+1D6EA", "U+1D6EB", "U+1D6EC", "U+1D6ED", "U+1D6EE", "U+1D6EF",
      "U+1D6F0", "U+1D6F1", "U+1D6F2", "U+1D6F3", "U+1D6F4", "U+1D6F5",
      "U+1D6F6", "U+1D6F7", "U+1D6F8", "U+1D6F9", "U+1D6FA", "U+1D6FC",
      "U+1D6FD", "U+1D6FE", "U+1D6FF", "U+1D700", "U+1D701", "U+1D702",
      "U+1D703", "U+1D704", "U+1D705", "U+1D706", "U+1D707", "U+1D708",
      "U+1D709", "U+1D70A", "U+1D70B", "U+1D70C", "U+1D70D", "U+1D70E",
      "U+1D70F", "U+1D710", "U+1D711", "U+1D712", "U+1D713", "U+1D714",
      "U+1D716", "U+1D717", "U+1D718", "U+1D719", "U+1D71A", "U+1D71B",
      "U+1D71C", "U+1D71D", "U+1D71E", "U+1D71F", "U+1D720", "U+1D721",
      "U+1D722", "U+1D723", "U+1D724", "U+1D725", "U+1D726", "U+1D727",
      "U+1D728", "U+1D729", "U+1D72A", "U+1D72B", "U+1D72C", "U+1D72D",
      "U+1D72E", "U+1D72F", "U+1D730", "U+1D731", "U+1D732", "U+1D733",
      "U+1D734", "U+1D736", "U+1D737", "U+1D738", "U+1D739", "U+1D73A",
      "U+1D73B", "U+1D73C", "U+1D73D", "U+1D73E", "U+1D73F", "U+1D740",
      "U+1D741", "U+1D742", "U+1D743", "U+1D744", "U+1D745", "U+1D746",
      "U+1D747", "U+1D748", "U+1D749", "U+1D74A", "U+1D74B", "U+1D74C",
      "U+1D74D", "U+1D74E", "U+1D750", "U+1D751", "U+1D752", "U+1D753",
      "U+1D754", "U+1D755", "U+1D756", "U+1D757", "U+1D758", "U+1D759",
      "U+1D75A", "U+1D75B", "U+1D75C", "U+1D75D", "U+1D75E", "U+1D75F",
      "U+1D760", "U+1D761", "U+1D762", "U+1D763", "U+1D764", "U+1D765",
      "U+1D766", "U+1D767", "U+1D768", "U+1D769", "U+1D76A", "U+1D76B",
      "U+1D76C", "U+1D76D", "U+1D76E", "U+1D770", "U+1D771", "U+1D772",
      "U+1D773", "U+1D774", "U+1D775", "U+1D776", "U+1D777", "U+1D778",
      "U+1D779", "U+1D77A", "U+1D77B", "U+1D77C", "U+1D77D", "U+1D77E",
      "U+1D77F", "U+1D780", "U+1D781", "U+1D782", "U+1D783", "U+1D784",
      "U+1D785", "U+1D786", "U+1D787", "U+1D788", "U+1D78A", "U+1D78B",
      "U+1D78C", "U+1D78D", "U+1D78E", "U+1D78F", "U+1D790", "U+1D791",
      "U+1D792", "U+1D793", "U+1D794", "U+1D795", "U+1D796", "U+1D797",
      "U+1D798", "U+1D799", "U+1D79A", "U+1D79B", "U+1D79C", "U+1D79D",
      "U+1D79E", "U+1D79F", "U+1D7A0", "U+1D7A1", "U+1D7A2", "U+1D7A3",
      "U+1D7A4", "U+1D7A5", "U+1D7A6", "U+1D7A7", "U+1D7A8", "U+1D7AA",
      "U+1D7AB", "U+1D7AC", "U+1D7AD", "U+1D7AE", "U+1D7AF", "U+1D7B0",
      "U+1D7B1", "U+1D7B2", "U+1D7B3", "U+1D7B4", "U+1D7B5", "U+1D7B6",
      "U+1D7B7", "U+1D7B8", "U+1D7B9", "U+1D7BA", "U+1D7BB", "U+1D7BC",
      "U+1D7BD", "U+1D7BE", "U+1D7BF", "U+1D7C0", "U+1D7C1", "U+1D7C2",
      "U+1D7C4", "U+1D7C5", "U+1D7C6", "U+1D7C7", "U+1D7C8", "U+1D7C9",
      "U+1D7CA", "U+1D7CB", "U+1DF00", "U+1DF01", "U+1DF02", "U+1DF03",
      "U+1DF04", "U+1DF05", "U+1DF06", "U+1DF07", "U+1DF08", "U+1DF09",
      "U+1DF0B", "U+1DF0C", "U+1DF0D", "U+1DF0E", "U+1DF0F", "U+1DF10",
      "U+1DF11", "U+1DF12", "U+1DF13", "U+1DF14", "U+1DF15", "U+1DF16",
      "U+1DF17", "U+1DF18", "U+1DF19", "U+1DF1A", "U+1DF1B", "U+1DF1C",
      "U+1DF1D", "U+1DF1E", "U+1F130", "U+1F131", "U+1F132", "U+1F133",
      "U+1F134", "U+1F135", "U+1F136", "U+1F137", "U+1F138", "U+1F139",
      "U+1F13A", "U+1F13B", "U+1F13C", "U+1F13D", "U+1F13E", "U+1F13F",
      "U+1F140", "U+1F141", "U+1F142", "U+1F143", "U+1F144", "U+1F145",
      "U+1F146", "U+1F147", "U+1F148", "U+1F149", "U+1F150", "U+1F151",
      "U+1F152", "U+1F153", "U+1F154", "U+1F155", "U+1F156", "U+1F157",
      "U+1F158", "U+1F159", "U+1F15A", "U+1F15B", "U+1F15C", "U+1F15D",
      "U+1F15E", "U+1F15F", "U+1F160", "U+1F161", "U+1F162", "U+1F163",
      "U+1F164", "U+1F165", "U+1F166", "U+1F167", "U+1F168", "U+1F169",
      "U+1F170", "U+1F171", "U+1F172", "U+1F173", "U+1F174", "U+1F175",
      "U+1F176", "U+1F177", "U+1F178", "U+1F179", "U+1F17A", "U+1F17B",
      "U+1F17C", "U+1F17D", "U+1F17E", "U+1F17F", "U+1F180", "U+1F181",
      "U+1F182", "U+1F183", "U+1F184", "U+1F185", "U+1F186", "U+1F187",
      "U+1F188", "U+1F189" }

\* the case-ignorable characters: the test for a final sigma skips them
CaseIgnorable ==
    { "'", ".", ":", "^", "U+0060", "¨", "­", "¯", "´", "·", "¸", "ʰ", "ʱ",
      "ʲ", "ʳ", "ʴ", "ʵ", "ʶ", "ʷ", "ʸ", "ʹ", "ʺ", "ʻ", "ʼ", "ʽ", "ʾ", "ʿ",
      "ˀ", "ˁ", "˂", "˃", "˄", "˅", "ˆ", "ˇ", "ˈ", "ˉ", "ˊ", "ˋ", "ˌ", "ˍ",
      "ˎ", "ˏ", "ː", "ˑ", "˒", "˓", "˔", "˕", "˖", "˗", "˘", "˙", "˚", "˛",
      "˜", "˝", "˞", "˟", "ˠ", "ˡ", "ˢ", "ˣ", "ˤ", "˥", "˦", "˧", "˨", "˩",
      "˪", "˫", "ˬ", "˭", "ˮ", "˯", "˰", "˱", "˲", "˳", "˴", "˵", "˶", "˷",
      "˸", "˹", "˺", "˻", "˼", "˽", "˾", "˿", "U+0300", "U+0301", "U+0302",
      "U+0303", "U+0304", "U+0305", "U+0306", "U+0307", "U+0308", "U+0309",
      "U+030A", "U+030B", "U+030C", "U+030D", "U+030E", "U+030F", "U+0310",
      "U+0311", "U+0312", "U+0313", "U+0314", "U+0315", "U+0316", "U+0317",
      "U+0318", "U+0319", "U+031A", "U+031B", "U+031C", "U+031D", "U+031E",
      "U+031F", "U+0320", "U+0321", "U+0322", "U+0323", "U+0324", "U+0325",
      "U+0326", "U+0327", "U+0328", "U+0329", "U+032A", "U+032B", "U+032C",
      "U+032D", "U+032E", "U+032F", "U+0330", "U+0331", "U+0332", "U+0333",
      "U+0334", "U+0335", "U+0336", "U+0337", "U+0338", "U+0339", "U+033A",
      "U+033B", "U+033C", "U+033D", "U+033E", "U+033F", "U+0340", "U+0341",
      "U+0342", "U+0343", "U+0344", "U+0345", "U+0346", "U+0347", "U+0348",
      "U+0349", "U+034A", "U+034B", "U+034C", "U+034D", "U+034E", "U+034F",
      "U+0350", "U+0351", "U+0352", "U+0353", "U+0354", "U+0355", "U+0356",
      "U+0357", "U+0358", "U+0359", "U+035A", "U+035B", "U+035C", "U+035D",
      "U+035E", "U+035F", "U+0360", "U+0361", "U+0362", "U+0363", "U+0364",
      "U+0365", "U+0366", "U+0367", "U+0368", "U+0369", "U+036A", "U+036B",
      "U+036C", "U+036D", "U+036E", "U+036F", "U+0374", "U+0375", "U+037A",
      "΄", "΅", "·", "҃", "҄", "҅", "҆", "҇", "҈", "҉", "U+0559", "U+055F",
      "֑", "֒", "֓", "֔", "֕", "֖", "֗", "֘", "֙", "֚", "֛", "֜", "֝", "֞",
      "֟", "֠", "֡", "֢", "֣", "֤", "֥", "֦", "֧", "֨", "֩", "֪", "֫", "֬",
      "֭", "֮", "֯", "ְ", "ֱ", "ֲ", "ֳ", "ִ", "ֵ", "ֶ", "ַ", "ָ", "ֹ", "ֺ",
      "ֻ", "ּ", "ֽ", "ֿ", "ׁ", "ׂ", "ׄ", "ׅ", "ׇ", "״", "U+0600", "U+0601",
      "U+0602", "U+0603", "U+0604", "U+0605", "U+0610", "U+0611", "U+0612",
      "U+0613", "U+0614", "U+0615", "U+0616", "U+0617", "U+0618", "U+0619",
      "U+061A", "U+061C", "U+0640", "U+064B", "U+064C", "U+064D", "U+064E",
      "U+064F", "U+0650", "U+0651", "U+0652", "U+0653", "U+0654", "U+0655",
      "U+0656", "U+0657", "U+0658", "U+0659", "U+065A", "U+065B", "U+065C",
      "U+065D", "U+065E", "U+065F", "U+0670", "ۖ", "ۗ", "ۘ", "ۙ", "ۚ", "ۛ",
      "ۜ", "۝", "۟", "۠", "ۡ", "ۢ", "ۣ", "ۤ", "ۥ", "ۦ", "ۧ", "ۨ", "۪", "۫",
      "۬", "ۭ", "U+070F", "U+0711", "U+0730", "U+0731", "U+0732", "U+0733",
      "U+0734", "U+0735", "U+0736", "U+0737", "U+0738", "U+0739", "U+073A",
      "U+073B", "U+073C", "U+073D", "U+073E", "U+073F", "U+0740", "U+0741",
      "U+0742", "U+0743", "U+0744", "U+0745", "U+0746", "U+0747", "U+0748",
      "U+0749", "U+074A", "ަ", "ާ", "ި", "ީ", "ު", "ޫ", "ެ", "ޭ", "ޮ", "ޯ",
      "ް", "߫", "߬", "߭", "߮", "߯", "߰", "߱", "߲", "߳", "ߴ", "ߵ", "ߺ", "߽",
      "U+0816", "U+0817", "U+0818", "U+0819", "U+081A", "U+081B", "U+081C",
      "U+081D", "U+081E", "U+081F", "U+0820", "U+0821", "U+0822", "U+0823",
      "U+0824", "U+0825", "U+0826", "U+0827", "U+0828", "U+0829", "U+082A",
      "U+082B", "U+082C", "U+082D", "U+0859", "U+085A", "U+085B", "࢈", "࢐",
      "࢑", "࢘", "࢙", "࢚", "࢛", "࢜", "࢝", "࢞", "࢟", "ࣉ", "࣊", "࣋", "࣌", "࣍",
      "࣎", "࣏", "࣐", "࣑", "࣒", "࣓", "ࣔ", "ࣕ", "ࣖ", "ࣗ", "ࣘ", "ࣙ", "ࣚ", "ࣛ",
      "ࣜ", "ࣝ", "ࣞ", "ࣟ", "࣠", "࣡", "࣢", "ࣣ", "ࣤ", "ࣥ", "ࣦ", "ࣧ", "ࣨ", "ࣩ",
      "࣪", "࣫", "࣬", "࣭", "࣮", "࣯", "ࣰ", "ࣱ", "ࣲ", "ࣳ", "ࣴ", "ࣵ", "ࣶ", "ࣷ",
      "ࣸ", "ࣹ", "ࣺ", "ࣻ", "ࣼ", "ࣽ", "ࣾ", "ࣿ", "U+0900", "U+0901", "U+0902",
      "U+093A", "U+093C", "U+0941", "U+0942", "U+0943", "U+0944", "U+0945",
      "U+0946", "U+0947", "U+0948", "U+094D", "U+0951", "U+0952", "U+0953",
      "U+0954", "U+0955", "U+0956", "U+0957", "U+0962", "U+0963", "U+0971",
      "ঁ", "়", "ু", "ূ", "ৃ", "ৄ", "্", "ৢ", "ৣ", "৾", "U+0A01", "U+0A02",
      "U+0A3C", "U+0A41", "U+0A42", "U+0A47", "U+0A48", "U+0A4B", "U+0A4C",
      "U+0A4D", "U+0A51", "U+0A70", "U+0A71", "U+0A75", "ઁ", "ં", "઼", "ુ",
      "ૂ", "ૃ", "ૄ", "ૅ", "ે", "ૈ", "્", "ૢ", "ૣ", "ૺ", "ૻ", "ૼ", "૽", "૾",
      "૿", "U+0B01", "U+0B3C", "U+0B3F", "U+0B41", "U+0B42", "U+0B43",
      "U+0B44", "U+0B4D", "U+0B55", "U+0B56", "U+0B62", "U+0B63", "ஂ", "ீ",
      "்", "U+0C00", "U+0C04", "U+0C3C", "U+0C3E", "U+0C3F", "U+0C40",
      "U+0C46", "U+0C47", "U+0C48", "U+0C4A", "U+0C4B", "U+0C4C", "U+0C4D",
      "U+0C55", "U+0C56", "U+0C62", "U+0C63", "ಁ", "಼", "ಿ", "ೆ", "ೌ", "್",
      "ೢ", "ೣ", "U+0D00", "U+0D01", "U+0D3B", "U+0D3C", "U+0D41", "U+0D42",
      "U+0D43", "U+0D44", "U+0D4D", "U+0D62", "U+0D63", "ඁ", "්", "ි", "ී",
      "ු", "ූ", "U+0E31", "U+0E34", "U+0E35", "U+0E36", "U+0E37", "U+0E38",
      "U+0E39", "U+0E3A", "U+0E46", "U+0E47", "U+0E48", "U+0E49", "U+0E4A",
      "U+0E4B", "U+0E4C", "U+0E4D", "U+0E4E", "ັ", "ິ", "ີ", "ຶ", "ື", "ຸ",
      "ູ", "຺", "ົ", "ຼ", "ໆ", "່", "້", "໊", "໋", "໌", "ໍ", "U+0F18",
      "U+0F19", "U+0F35", "U+0F37", "U+0F39", "U+0F71", "U+0F72", "U+0F73",
      "U+0F74", "U+0F75", "U+0F76", "U+0F77", "U+0F78", "U+0F79", "U+0F7A",
      "U+0F7B", "U+0F7C", "U+0F7D", "U+0F7E", "ྀ", "ཱྀ", "ྂ", "ྃ", "྄", "྆",
      "྇", "ྍ", "ྎ", "ྏ", "ྐ", "ྑ", "ྒ", "ྒྷ", "ྔ", "ྕ", "ྖ", "ྗ", "ྙ", "ྚ",
      "ྛ", "ྜ", "ྜྷ", "ྞ", "ྟ", "ྠ", "ྡ", "ྡྷ", "ྣ", "ྤ", "ྥ", "ྦ", "ྦྷ", "ྨ",
      "ྩ", "ྪ", "ྫ", "ྫྷ", "ྭ", "ྮ", "ྯ", "ྰ", "ྱ", "ྲ", "ླ", "ྴ", "ྵ", "ྶ",
      "ྷ", "ྸ", "ྐྵ", "ྺ", "ྻ", "ྼ", "࿆", "U+102D", "U+102E", "U+102F",
      "U+1030", "U+1032", "U+1033", "U+1034", "U+1035", "U+1036", "U+1037",
      "U+1039", "U+103A", "U+103D", "U+103E", "U+1058", "U+1059", "U+105E",
      "U+105F", "U+1060", "U+1071", "U+1072", "U+1073", "U+1074", "ႂ", "ႅ",
      "ႆ", "ႍ", "ႝ", "ჼ", "U+135D", "U+135E", "U+135F", "U+1712", "U+1713",
      "U+1714", "U+1732", "U+1733", "U+1752", "U+1753", "U+1772", "U+1773",
      "឴", "឵", "ិ", "ី", "ឹ", "ឺ", "ុ", "ូ", "ួ", "ំ", "៉", "៊", "់", "៌",
      "៍", "៎", "៏", "័", "៑", "្", "៓", "ៗ", "៝", "U+180B", "U+180C",
      "U+180D", "U+180E", "U+180F", "U+1843", "ᢅ", "ᢆ", "ᢩ", "U+1920",
      "U+1921", "U+1922", "U+1927", "U+1928", "U+1932", "U+1939", "U+193A",
      "U+193B", "U+1A17", "U+1A18", "U+1A1B", "U+1A56", "U+1A58", "U+1A59",
      "U+1A5A", "U+1A5B", "U+1A5C", "U+1A5D", "U+1A5E", "U+1A60", "U+1A62",
      "U+1A65", "U+1A66", "U+1A67", "U+1A68", "U+1A69", "U+1A6A", "U+1A6B",
      "U+1A6C", "U+1A73", "U+1A74", "U+1A75", "U+1A76", "U+1A77", "U+1A78",
      "U+1A79", "U+1A7A", "U+1A7B", "U+1A7C", "U+1A7F", "ᪧ", "᪰", "᪱", "᪲",
      "᪳", "᪴", "᪵", "᪶", "᪷", "᪸", "᪹", "᪺", "᪻", "᪼", "᪽", "᪾", "ᪿ", "ᫀ",
      "᫁", "᫂", "᫃", "᫄", "᫅", "᫆", "᫇", "᫈", "᫉", "᫊", "᫋", "ᫌ", "ᫍ", "ᫎ",
      "U+1B00", "U+1B01", "U+1B02", "U+1B03", "U+1B34", "U+1B36", "U+1B37",
      "U+1B38", "U+1B39", "U+1B3A", "U+1B3C", "U+1B42", "U+1B6B", "U+1B6C",
      "U+1B6D", "U+1B6E", "U+1B6F", "U+1B70", "U+1B71", "U+1B72", "U+1B73",
      "ᮀ", "ᮁ", "ᮢ", "ᮣ", "ᮤ", "ᮥ", "ᮨ", "ᮩ", "᮫", "ᮬ", "ᮭ", "᯦", "ᯨ", "ᯩ",
      "ᯭ", "ᯯ", "ᯰ", "ᯱ", "U+1C2C", "U+1C2D", "U+1C2E", "U+1C2F", "U+1C30",
      "U+1C31", "U+1C32", "U+1C33", "U+1C36", "U+1C37", "U+1C78", "U+1C79",
      "U+1C7A", "U+1C7B", "U+1C7C", "U+1C7D", "᳐", "᳑", "᳒", "᳔", "᳕", "᳖",
      "᳗", "᳘", "᳙", "᳚", "᳛", "᳜", "᳝", "᳞", "᳟", "᳠", "᳢", "᳣", "᳤", "᳥",
      "᳦", "᳧", "᳨", "᳭", "᳴", "᳸", "᳹", "U+1D2C", "U+1D2D", "U+1D2E",
      "U+1D2F", "U+1D30", "U+1D31", "U+1D32", "U+1D33", "U+1D34", "U+1D35",
      "U+1D36", "U+1D37", "U+1D38", "U+1D39", "U+1D3A", "U+1D3B", "U+1D3C",
      "U+1D3D", "U+1D3E", "U+1D3F", "U+1D40", "U+1D41", "U+1D42", "U+1D43",
      "U+1D44", "U+1D45", "U+1D46", "U+1D47", "U+1D48", "U+1D49", "U+1D4A",
      "U+1D4B", "U+1D4C", "U+1D4D", "U+1D4E", "U+1D4F", "U+1D50", "U+1D51",
      "U+1D52", "U+1D53", "U+1D54", "U+1D55", "U+1D56", "U+1D57", "U+1D58",
      "U+1D59", "U+1D5A", "U+1D5B", "U+1D5C", "U+1D5D", "U+1D5E", "U+1D5F",
      "U+1D60", "U+1D61", "U+1D62", "U+1D63", "U+1D64", "U+1D65", "U+1D66",
      "U+1D67", "U+1D68", "U+1D69", "U+1D6A", "U+1D78", "ᶛ", "ᶜ", "ᶝ", "ᶞ",
      "ᶟ", "ᶠ", "ᶡ", "ᶢ", "ᶣ", "ᶤ", "ᶥ", "ᶦ", "ᶧ", "ᶨ", "ᶩ", "ᶪ", "ᶫ", "ᶬ",
      "ᶭ", "ᶮ", "ᶯ", "ᶰ", "ᶱ", "ᶲ", "ᶳ", "ᶴ", "ᶵ", "ᶶ", "ᶷ", "ᶸ", "ᶹ", "ᶺ",
      "ᶻ", "ᶼ", "ᶽ", "ᶾ", "ᶿ", "᷀", "᷁", "᷂", "᷃", "᷄", "᷅", "᷆", "᷇", "᷈",
      "᷉", "᷊", "᷋", "᷌", "᷍", "᷎", "᷏", "᷐", "᷑", "᷒", "ᷓ", "ᷔ", "ᷕ", "ᷖ",
      "ᷗ", "ᷘ", "ᷙ", "ᷚ", "ᷛ", "ᷜ", "ᷝ", "ᷞ", "ᷟ", "ᷠ", "ᷡ", "ᷢ", "ᷣ", "ᷤ",
      "ᷥ", "ᷦ", "ᷧ", "ᷨ", "ᷩ", "ᷪ", "ᷫ", "ᷬ", "ᷭ", "ᷮ", "ᷯ", "ᷰ", "ᷱ", "ᷲ",
      "ᷳ", "ᷴ", "᷵", "᷶", "᷷", "᷸", "᷹", "᷺", "᷻", "᷼", "᷽", "᷾", "᷿", "᾽",
      "᾿", "῀", "῁", "῍", "῎", "῏", "῝", "῞", "῟", "῭", "΅", "`", "´", "῾",
      "U+200B", "U+200C", "U+200D", "U+200E", "U+200F", "U+2018", "U+2019",
      "U+2024", "U+2027", "U+202A", "U+202B", "U+202C", "U+202D", "U+202E",
      "U+2060", "U+2061", "U+2062", "U+2063", "U+2064", "U+2066", "U+2067",
      "U+2068", "U+2069", "U+206A", "U+206B", "U+206C", "U+206D", "U+206E",
      "U+206F", "U+2071", "U+207F", "ₐ", "ₑ", "ₒ", "ₓ", "ₔ", "ₕ", "ₖ", "ₗ",
      "ₘ", "ₙ", "ₚ", "ₛ", "ₜ", "⃐", "⃑", "⃒", "⃓", "⃔", "⃕", "⃖", "⃗", "⃘",
      "⃙", "⃚", "⃛", "⃜", "⃝", "⃞", "⃟", "⃠", "⃡", "⃢", "⃣", "⃤", "⃥", "⃦",
      "⃧", "⃨", "⃩", "⃪", "⃫", "⃬", "⃭", "⃮", "⃯", "⃰", "U+2C7C", "U+2C7D",
      "⳯", "⳰", "⳱", "U+2D6F", "U+2D7F", "ⷠ", "ⷡ", "ⷢ", "ⷣ", "ⷤ", "ⷥ", "ⷦ",
      "ⷧ", "ⷨ", "ⷩ", "ⷪ", "ⷫ", "ⷬ", "ⷭ", "ⷮ", "ⷯ", "ⷰ", "ⷱ", "ⷲ", "ⷳ", "ⷴ",
      "ⷵ", "ⷶ", "ⷷ", "ⷸ", "ⷹ", "ⷺ", "ⷻ", "ⷼ", "ⷽ", "ⷾ", "ⷿ", "U+2E2F",
      "U+3005", "U+302A", "U+302B", "U+302C", "U+302D", "U+3031", "U+3032",
      "U+3033", "U+3034", "U+3035", "U+303B", "゙", "゚", "゛", "゜", "ゝ", "ゞ",
      "ー", "ヽ", "ヾ", "U+A015", "ꓸ", "ꓹ", "ꓺ", "ꓻ", "ꓼ", "ꓽ", "U+A60C",
      "U+A66F", "U+A670", "U+A671", "U+A672", "U+A674", "U+A675", "U+A676",
      "U+A677", "U+A678", "U+A679", "U+A67A", "U+A67B", "U+A67C", "U+A67D",
      "U+A67F", "ꚜ", "ꚝ", "ꚞ", "ꚟ", "꛰", "꛱", "U+A700", "U+A701", "U+A702",
      "U+A703", "U+A704", "U+A705", "U+A706", "U+A707", "U+A708", "U+A709",
      "U+A70A", "U+A70B", "U+A70C", "U+A70D", "U+A70E", "U+A70F", "U+A710",
      "U+A711", "U+A712", "U+A713", "U+A714", "U+A715", "U+A716", "U+A717",
      "U+A718", "U+A719", "U+A71A", "U+A71B", "U+A71C", "U+A71D", "U+A71E",
      "U+A71F", "U+A720", "U+A721", "U+A770", "ꞈ", "꞉", "꞊", "ꟲ", "ꟳ", "ꟴ",
      "ꟸ", "ꟹ", "U+A802", "U+A806", "U+A80B", "U+A825", "U+A826", "U+A82C",
      "꣄", "ꣅ", "꣠", "꣡", "꣢", "꣣", "꣤", "꣥", "꣦", "꣧", "꣨", "꣩", "꣪", "꣫",
      "꣬", "꣭", "꣮", "꣯", "꣰", "꣱", "ꣿ", "U+A926", "U+A927", "U+A928",
      "U+A929", "U+A92A", "U+A92B", "U+A92C", "U+A92D", "U+A947", "U+A948",
      "U+A949", "U+A94A", "U+A94B", "U+A94C", "U+A94D", "U+A94E", "U+A94F",
      "U+A950", "U+A951", "ꦀ", "ꦁ", "ꦂ", "꦳", "ꦶ", "ꦷ", "ꦸ", "ꦹ", "ꦼ", "ꦽ",
      "ꧏ", "ꧥ", "ꧦ", "U+AA29", "U+AA2A", "U+AA2B", "U+AA2C", "U+AA2D",
      "U+AA2E", "U+AA31", "U+AA32", "U+AA35", "U+AA36", "U+AA43", "U+AA4C",
      "U+AA70", "U+AA7C", "ꪰ", "ꪲ", "ꪳ", "ꪴ", "ꪷ", "ꪸ", "ꪾ", "꪿", "꫁", "ꫝ",
      "ꫬ", "ꫭ", "ꫳ", "ꫴ", "꫶", "U+AB5B", "U+AB5C", "U+AB5D", "U+AB5E",
      "U+AB5F", "U+AB69", "U+AB6A", "U+AB6B", "ꯥ", "ꯨ", "꯭", "U+FB1E", "﮲",
      "﮳", "﮴", "﮵", "﮶", "﮷", "﮸", "﮹", "﮺", "﮻", "﮼", "﮽", "﮾", "﮿", "﯀",
      "﯁", "﯂", "U+FE00", "U+FE01", "U+FE02", "U+FE03", "U+FE04", "U+FE05",
      "U+FE06", "U+FE07", "U+FE08", "U+FE09", "U+FE0A", "U+FE0B", "U+FE0C",
      "U+FE0D", "U+FE0E", "U+FE0F", "U+FE13", "U+FE20", "U+FE21", "U+FE22",
      "U+FE23", "U+FE24", "U+FE25", "U+FE26", "U+FE27", "U+FE28", "U+FE29",
      "U+FE2A", "U+FE2B", "U+FE2C", "U+FE2D", "U+FE2E", "U+FE2F", "U+FE52",
      "U+FE55", "﻿", "U+FF07", "U+FF0E", "U+FF1A", "U+FF3E", "U+FF40",
      "U+FF70", "ﾞ", "ﾟ", "￣", "￹", "￺", "￻", "U+101FD", "U+102E0", "U+10376",
      "U+10377", "U+10378", "U+10379", "U+1037A", "U+10780", "U+10781",
      "U+10782", "U+10783", "U+10784", "U+10785", "U+10787", "U+10788",
      "U+10789", "U+1078A", "U+1078B", "U+1078C", "U+1078D", "U+1078E",
      "U+1078F", "U+10790", "U+10791", "U+10792", "U+10793", "U+10794",
      "U+10795", "U+10796", "U+10797", "U+10798", "U+10799", "U+1079A",
      "U+1079B", "U+1079C", "U+1079D", "U+1079E", "U+1079F", "U+107A0",
      "U+107A1", "U+107A2", "U+107A3", "U+107A4", "U+107A5", "U+107A6",
      "U+107A7", "U+107A8", "U+107A9", "U+107AA", "U+107AB", "U+107AC",
      "U+107AD", "U+107AE", "U+107AF", "U+107B0", "U+107B2", "U+107B3",
      "U+107B4", "U+107B5", "U+107B6", "U+107B7", "U+107B8", "U+107B9",
      "U+107BA", "U+10A01", "U+10A02", "U+10A03", "U+10A05", "U+10A06",
      "U+10A0C", "U+10A0D", "U+10A0E", "U+10A0F", "U+10A38", "U+10A39",
      "U+10A3A", "U+10A3F", "U+10AE5", "U+10AE6", "U+10D24", "U+10D25",
      "U+10D26", "U+10D27", "U+10EAB", "U+10EAC", "U+10F46", "U+10F47",
      "U+10F48", "U+10F49", "U+10F4A", "U+10F4B", "U+10F4C", "U+10F4D",
      "U+10F4E", "U+10F4F", "U+10F50", "U+10F82", "U+10F83", "U+10F84",
      "U+10F85", "U+11001", "U+11038", "U+11039", "U+1103A", "U+1103B",
      "U+1103C", "U+1103D", "U+1103E", "U+1103F", "U+11040", "U+11041",
      "U+11042", "U+11043", "U+11044", "U+11045", "U+11046", "U+11070",
      "U+11073", "U+11074", "U+1107F", "U+11080", "U+11081", "U+110B3",
      "U+110B4", "U+110B5", "U+110B6", "U+110B9", "U+110BA", "U+110BD",
      "U+110C2", "U+110CD", "U+11100", "U+11101", "U+11102", "U+11127",
      "U+11128", "U+11129", "U+1112A", "U+1112B", "U+1112D", "U+1112E",
      "U+1112F", "U+11130", "U+11131", "U+11132", "U+11133", "U+11134",
      "U+11173", "U+11180", "U+11181", "U+111B6", "U+111B7", "U+111B8",
      "U+111B9", "U+111BA", "U+111BB", "U+111BC", "U+111BD", "U+111BE",
      "U+111C9", "U+111CA", "U+111CB", "U+111CC", "U+111CF", "U+1122F",
      "U+11230", "U+11231", "U+11234", "U+11236", "U+11237", "U+1123E",
      "U+112DF", "U+112E3", "U+112E4", "U+112E5", "U+112E6", "U+112E7",
      "U+112E8", "U+112E9", "U+112EA", "U+11300", "U+11301", "U+1133B",
      "U+1133C", "U+11340", "U+11366", "U+11367", "U+11368", "U+11369",
      "U+1136A", "U+1136B", "U+1136C", "U+11370", "U+11371", "U+11372",
      "U+11373", "U+11374", "U+11438", "U+11439", "U+1143A", "U+1143B",
      "U+1143C", "U+1143D", "U+1143E", "U+1143F", "U+11442", "U+11443",
      "U+11444", "U+11446", "U+1145E", "U+114B3", "U+114B4", "U+114B5",
      "U+114B6", "U+114B7", "U+114B8", "U+114BA", "U+114BF", "U+114C0",
      "U+114C2", "U+114C3", "U+115B2", "U+115B3", "U+115B4", "U+115B5",
      "U+115BC", "U+115BD", "U+115BF", "U+115C0", "U+115DC", "U+115DD",
      "U+11633", "U+11634", "U+11635", "U+11636", "U+11637", "U+11638",
      "U+11639", "U+1163A", "U+1163D", "U+1163F", "U+11640", "U+116AB",
      "U+116AD", "U+116B0", "U+116B1", "U+116B2", "U+116B3", "U+116B4",
      "U+116B5", "U+116B7", "U+1171D", "U+1171E", "U+1171F", "U+11722",
      "U+11723", "U+11724", "U+11725", "U+11727", "U+11728", "U+11729",
      "U+1172A", "U+1172B", "U+1182F", "U+11830", "U+11831", "U+11832",
      "U+11833", "U+11834", "U+11835", "U+11836", "U+11837", "U+11839",
      "U+1183A", "U+1193B", "U+1193C", "U+1193E", "U+11943", "U+119D4",
      "U+119D5", "U+119D6", "U+119D7", "U+119DA", "U+119DB", "U+119E0",
      "U+11A01", "U+11A02", "U+11A03", "U+11A04", "U+11A05", "U+11A06",
      "U+11A07", "U+11A08", "U+11A09", "U+11A0A", "U+11A33", "U+11A34",
      "U+11A35", "U+11A36", "U+11A37", "U+11A38", "U+11A3B", "U+11A3C",
      "U+11A3D", "U+11A3E", "U+11A47", "U+11A51", "U+11A52", "U+11A53",
      "U+11A54", "U+11A55", "U+11A56", "U+11A59", "U+11A5A", "U+11A5B",
      "U+11A8A", "U+11A8B", "U+11A8C", "U+11A8D", "U+11A8E", "U+11A8F",
      "U+11A90", "U+11A91", "U+11A92", "U+11A93", "U+11A94", "U+11A95",
      "U+11A96", "U+11A98", "U+11A99", "U+11C30", "U+11C31", "U+11C32",
      "U+11C33", "U+11C34", "U+11C35", "U+11C36", "U+11C38", "U+11C39",
      "U+11C3A", "U+11C3B", "U+11C3C", "U+11C3D", "U+11C3F", "U+11C92",
      "U+11C93", "U+11C94", "U+11C95", "U+11C96", "U+11C97", "U+11C98",
      "U+11C99", "U+11C9A", "U+11C9B", "U+11C9C", "U+11C9D", "U+11C9E",
      "U+11C9F", "U+11CA0", "U+11CA1", "U+11CA2", "U+11CA3", "U+11CA4",
      "U+11CA5", "U+11CA6", "U+11CA7", "U+11CAA", "U+11CAB", "U+11CAC",
      "U+11CAD", "U+11CAE", "U+11CAF", "U+11CB0", "U+11CB2", "U+11CB3",
      "U+11CB5", "U+11CB6", "U+11D31", "U+11D32", "U+11D33", "U+11D34",
      "U+11D35", "U+11D36", "U+11D3A", "U+11D3C", "U+11D3D", "U+11D3F",
      "U+11D40", "U+11D41", "U+11D42", "U+11D43", "U+11D44", "U+11D45",
      "U+11D47", "U+11D90", "U+11D91", "U+11D95", "U+11D97", "U+11EF3",
      "U+11EF4", "U+13430", "U+13431", "U+13432", "U+13433", "U+13434",
      "U+13435", "U+13436", "U+13437", "U+13438", "U+16AF0", "U+16AF1",
      "U+16AF2", "U+16AF3", "U+16AF4", "U+16B30", "U+16B31", "U+16B32",
      "U+16B33", "U+16B34", "U+16B35", "U+16B36", "U+16B40", "U+16B41",
      "U+16B42", "U+16B43", "U+16F4F", "U+16F8F", "U+16F90", "U+16F91",
      "U+16F92", "U+16F93", "U+16F94", "U+16F95", "U+16F96", "U+16F97",
      "U+16F98", "U+16F99", "U+16F9A", "U+16F9B", "U+16F9C", "U+16F9D",
      "U+16F9E", "U+16F9F", "U+16FE0", "U+16FE1", "U+16FE3", "U+16FE4",
      "U+1AFF0", "U+1AFF1", "U+1AFF2", "U+1AFF3", "U+1AFF5", "U+1AFF6",
      "U+1AFF7", "U+1AFF8", "U+1AFF9", "U+1AFFA", "U+1AFFB", "U+1AFFD",
      "U+1AFFE", "U+1BC9D", "U+1BC9E", "U+1BCA0", "U+1BCA1", "U+1BCA2",
      "U+1BCA3", "U+1CF00", "U+1CF01", "U+1CF02", "U+1CF03", "U+1CF04",
      "U+1CF05", "U+1CF06", "U+1CF07", "U+1CF08", "U+1CF09", "U+1CF0A",
      "U+1CF0B", "U+1CF0C", "U+1CF0D", "U+1CF0E", "U+1CF0F", "U+1CF10",
      "U+1CF11", "U+1CF12", "U+1CF13", "U+1CF14", "U+1CF15", "U+1CF16",
      "U+1CF17", "U+1CF18", "U+1CF19", "U+1CF1A", "U+1CF1B", "U+1CF1C",
      "U+1CF1D", "U+1CF1E", "U+1CF1F", "U+1CF20", "U+1CF21", "U+1CF22",
      "U+1CF23", "U+1CF24", "U+1CF25", "U+1CF26", "U+1CF27", "U+1CF28",
      "U+1CF29", "U+1CF2A", "U+1CF2B", "U+1CF2C", "U+1CF2D", "U+1CF30",
      "U+1CF31", "U+1CF32", "U+1CF33", "U+1CF34", "U+1CF35", "U+1CF36",
      "U+1CF37", "U+1CF38", "U+1CF39", "U+1CF3A", "U+1CF3B", "U+1CF3C",
      "U+1CF3D", "U+1CF3E", "U+1CF3F", "U+1CF40", "U+1CF41", "U+1CF42",
      "U+1CF43", "U+1CF44", "U+1CF45", "U+1CF46", "U+1D167", "U+1D168",
      "U+1D169", "U+1D173", "U+1D174", "U+1D175", "U+1D176", "U+1D177",
      "U+1D178", "U+1D179", "U+1D17A", "U+1D17B", "U+1D17C", "U+1D17D",
      "U+1D17E", "U+1D17F", "U+1D180", "U+1D181", "U+1D182", "U+1D185",
      "U+1D186", "U+1D187", "U+1D188", "U+1D189", "U+1D18A", "U+1D18B",
      "U+1D1AA", "U+1D1AB", "U+1D1AC", "U+1D1AD", "U+1D242", "U+1D243",
      "U+1D244", "U+1DA00", "U+1DA01", "U+1DA02", "U+1DA03", "U+1DA04",
      "U+1DA05", "U+1DA06", "U+1DA07", "U+1DA08", "U+1DA09", "U+1DA0A",
      "U+1DA0B", "U+1DA0C", "U+1DA0D", "U+1DA0E", "U+1DA0F", "U+1DA10",
      "U+1DA11", "U+1DA12", "U+1DA13", "U+1DA14", "U+1DA15", "U+1DA16",
      "U+1DA17", "U+1DA18", "U+1DA19", "U+1DA1A", "U+1DA1B", "U+1DA1C",
      "U+1DA1D", "U+1DA1E", "U+1DA1F", "U+1DA20", "U+1DA21", "U+1DA22",
      "U+1DA23", "U+1DA24", "U+1DA25", "U+1DA26", "U+1DA27", "U+1DA28",
      "U+1DA29", "U+1DA2A", "U+1DA2B", "U+1DA2C", "U+1DA2D", "U+1DA2E",
      "U+1DA2F", "U+1DA30", "U+1DA31", "U+1DA32", "U+1DA33", "U+1DA34",
      "U+1DA35", "U+1DA36", "U+1DA3B", "U+1DA3C", "U+1DA3D", "U+1DA3E",
      "U+1DA3F", "U+1DA40", "U+1DA41", "U+1DA42", "U+1DA43", "U+1DA44",
      "U+1DA45", "U+1DA46", "U+1DA47", "U+1DA48", "U+1DA49", "U+1DA4A",
      "U+1DA4B", "U+1DA4C", "U+1DA4D", "U+1DA4E", "U+1DA4F", "U+1DA50",
      "U+1DA51", "U+1DA52", "U+1DA53", "U+1DA54", "U+1DA55", "U+1DA56",
      "U+1DA57", "U+1DA58", "U+1DA59", "U+1DA5A", "U+1DA5B", "U+1DA5C",
      "U+1DA5D", "U+1DA5E", "U+1DA5F", "U+1DA60", "U+1DA61", "U+1DA62",
      "U+1DA63", "U+1DA64", "U+1DA65", "U+1DA66", "U+1DA67", "U+1DA68",
      "U+1DA69", "U+1DA6A", "U+1DA6B", "U+1DA6C", "U+1DA75", "U+1DA84",
      "U+1DA9B", "U+1DA9C", "U+1DA9D", "U+1DA9E", "U+1DA9F", "U+1DAA1",
      "U+1DAA2", "U+1DAA3", "U+1DAA4", "U+1DAA5", "U+1DAA6", "U+1DAA7",
      "U+1DAA8", "U+1DAA9", "U+1DAAA", "U+1DAAB", "U+1DAAC", "U+1DAAD",
      "U+1DAAE", "U+1DAAF", "U+1E000", "U+1E001", "U+1E002", "U+1E003",
      "U+1E004", "U+1E005", "U+1E006", "U+1E008", "U+1E009", "U+1E00A",
      "U+1E00B", "U+1E00C", "U+1E00D", "U+1E00E", "U+1E00F", "U+1E010",
      "U+1E011", "U+1E012", "U+1E013", "U+1E014", "U+1E015", "U+1E016",
      "U+1E017", "U+1E018", "U+1E01B", "U+1E01C", "U+1E01D", "U+1E01E",
      "U+1E01F", "U+1E020", "U+1E021", "U+1E023", "U+1E024", "U+1E026",
      "U+1E027", "U+1E028", "U+1E029", "U+1E02A", "U+1E130", "U+1E131",
      "U+1E132", "U+1E133", "U+1E134", "U+1E135", "U+1E136", "U+1E137",
      "U+1E138", "U+1E139", "U+1E13A", "U+1E13B", "U+1E13C", "U+1E13D",
      "U+1E2AE", "U+1E2EC", "U+1E2ED", "U+1E2EE", "U+1E2EF", "U+1E8D0",
      "U+1E8D1", "U+1E8D2", "U+1E8D3", "U+1E8D4", "U+1E8D5", "U+1E8D6",
      "U+1E944", "U+1E945", "U+1E946", "U+1E947", "U+1E948", "U+1E949",
      "U+1E94A", "U+1E94B", "U+1F3FB", "U+1F3FC", "U+1F3FD", "U+1F3FE",
      "U+1F3FF", "U+E0001", "U+E0020", "U+E0021", "U+E0022", "U+E0023",
      "U+E0024", "U+E0025", "U+E0026", "U+E0027", "U+E0028", "U+E0029",
      "U+E002A", "U+E002B", "U+E002C", "U+E002D", "U+E002E", "U+E002F",
      "U+E0030", "U+E0031", "U+E0032", "U+E0033", "U+E0034", "U+E0035",
      "U+E0036", "U+E0037", "U+E0038", "U+E0039", "U+E003A", "U+E003B",
      "U+E003C", "U+E003D", "U+E003E", "U+E003F", "U+E0040", "U+E0041",
      "U+E0042", "U+E0043", "U+E0044", "U+E0045", "U+E0046", "U+E0047",
      "U+E0048", "U+E0049", "U+E004A", "U+E004B", "U+E004C", "U+E004D",
      "U+E004E", "U+E004F", "U+E0050", "U+E0051", "U+E0052", "U+E0053",
      "U+E0054", "U+E0055", "U+E0056", "U+E0057", "U+E0058", "U+E0059",
      "U+E005A", "U+E005B", "U+E005C", "U+E005D", "U+E005E", "U+E005F",
      "U+E0060", "U+E0061", "U+E0062", "U+E0063", "U+E0064", "U+E0065",
      "U+E0066", "U+E0067", "U+E0068", "U+E0069", "U+E006A", "U+E006B",
      "U+E006C", "U+E006D", "U+E006E", "U+E006F", "U+E0070", "U+E0071",
      "U+E0072", "U+E0073", "U+E0074", "U+E0075", "U+E0076", "U+E0077",
      "U+E0078", "U+E0079", "U+E007A", "U+E007B", "U+E007C", "U+E007D",
      "U+E007E", "U+E007F", "U+E0100", "U+E0101", "U+E0102", "U+E0103",
      "U+E0104", "U+E0105", "U+E0106", "U+E0107", "U+E0108", "U+E0109",
      "U+E010A", "U+E010B", "U+E010C", "U+E010D", "U+E010E", "U+E010F",
      "U+E0110", "U+E0111", "U+E0112", "U+E0113", "U+E0114", "U+E0115",
      "U+E0116", "U+E0117", "U+E0118", "U+E0119", "U+E011A", "U+E011B",
      "U+E011C", "U+E011D", "U+E011E", "U+E011F", "U+E0120", "U+E0121",
      "U+E0122", "U+E0123", "U+E0124", "U+E0125", "U+E0126", "U+E0127",
      "U+E0128", "U+E0129", "U+E012A", "U+E012B", "U+E012C", "U+E012D",
      "U+E012E", "U+E012F", "U+E0130", "U+E0131", "U+E0132", "U+E0133",
      "U+E0134", "U+E0135", "U+E0136", "U+E0137", "U+E0138", "U+E0139",
      "U+E013A", "U+E013B", "U+E013C", "U+E013D", "U+E013E", "U+E013F",
      "U+E0140", "U+E0141", "U+E0142", "U+E0143", "U+E0144", "U+E0145",
      "U+E0146", "U+E0147", "U+E0148", "U+E0149", "U+E014A", "U+E014B",
      "U+E014C", "U+E014D", "U+E014E", "U+E014F", "U+E0150", "U+E0151",
      "U+E0152", "U+E0153", "U+E0154", "U+E0155", "U+E0156", "U+E0157",
      "U+E0158", "U+E0159", "U+E015A", "U+E015B", "U+E015C", "U+E015D",
      "U+E015E", "U+E015F", "U+E0160", "U+E0161", "U+E0162", "U+E0163",
      "U+E0164", "U+E0165", "U+E0166", "U+E0167", "U+E0168", "U+E0169",
      "U+E016A", "U+E016B", "U+E016C", "U+E016D", "U+E016E", "U+E016F",
      "U+E0170", "U+E0171", "U+E0172", "U+E0173", "U+E0174", "U+E0175",
      "U+E0176", "U+E0177", "U+E0178", "U+E0179", "U+E017A", "U+E017B",
      "U+E017C", "U+E017D", "U+E017E", "U+E017F", "U+E0180", "U+E0181",
      "U+E0182", "U+E0183", "U+E0184", "U+E0185", "U+E0186", "U+E0187",
      "U+E0188", "U+E0189", "U+E018A", "U+E018B", "U+E018C", "U+E018D",
      "U+E018E", "U+E018F", "U+E0190", "U+E0191", "U+E0192", "U+E0193",
      "U+E0194", "U+E0195", "U+E0196", "U+E0197", "U+E0198", "U+E0199",
      "U+E019A", "U+E019B", "U+E019C", "U+E019D", "U+E019E", "U+E019F",
      "U+E01A0", "U+E01A1", "U+E01A2", "U+E01A3", "U+E01A4", "U+E01A5",
      "U+E01A6", "U+E01A7", "U+E01A8", "U+E01A9", "U+E01AA", "U+E01AB",
      "U+E01AC", "U+E01AD", "U+E01AE", "U+E01AF", "U+E01B0", "U+E01B1",
      "U+E01B2", "U+E01B3", "U+E01B4", "U+E01B5", "U+E01B6", "U+E01B7",
      "U+E01B8", "U+E01B9", "U+E01BA", "U+E01BB", "U+E01BC", "U+E01BD",
      "U+E01BE", "U+E01BF", "U+E01C0", "U+E01C1", "U+E01C2", "U+E01C3",
      "U+E01C4", "U+E01C5", "U+E01C6", "U+E01C7", "U+E01C8", "U+E01C9",
      "U+E01CA", "U+E01CB", "U+E01CC", "U+E01CD", "U+E01CE", "U+E01CF",
      "U+E01D0", "U+E01D1", "U+E01D2", "U+E01D3", "U+E01D4", "U+E01D5",
      "U+E01D6", "U+E01D7", "U+E01D8", "U+E01D9", "U+E01DA", "U+E01DB",
      "U+E01DC", "U+E01DD", "U+E01DE", "U+E01DF", "U+E01E0", "U+E01E1",
      "U+E01E2", "U+E01E3", "U+E01E4", "U+E01E5", "U+E01E6", "U+E01E7",
      "U+E01E8", "U+E01E9", "U+E01EA", "U+E01EB", "U+E01EC", "U+E01ED",
      "U+E01EE", "U+E01EF" }

LowerMap ==
    [c \in {LowerPairs[i][1] : i \in DOMAIN LowerPairs} |->
        Tail(LowerPairs[CHOOSE i \in DOMAIN LowerPairs : LowerPairs[i][1] = c])]

UpperMap ==
    [c \in {UpperPairs[i][1] : i \in DOMAIN UpperPairs} |->
        Tail(UpperPairs[CHOOSE i \in DOMAIN UpperPairs : UpperPairs[i][1] = c])]

\* c.lower() for one character, a str of one or two characters
LowerChar(c) == IF c \in DOMAIN LowerMap THEN LowerMap[c] ELSE <<c>>

\* c.upper() for one character, a str of one to three characters
UpperChar(c) == IF c \in DOMAIN UpperMap THEN UpperMap[c] ELSE <<c>>

IsCased(c) == c \in DOMAIN LowerMap \/ c \in DOMAIN UpperMap \/ c \in UnmappedCased

\* s[i] is a capital sigma at the end of a word: the nearest character
\* before it that is not case-ignorable is cased, the nearest after it is not
FinalSigma(s, i) ==
    /\ \E j \in 1..(i - 1) :
          /\ s[j] \notin CaseIgnorable /\ IsCased(s[j])
          /\ \A k \in (j + 1)..(i - 1) : s[k] \in CaseIgnorable
    /\ ~\E j \in (i + 1)..Len(s) :
          /\ s[j] \notin CaseIgnorable /\ IsCased(s[j])
          /\ \A k \in (i + 1)..(j - 1) : s[k] \in CaseIgnorable

RECURSIVE LowerFrom(_, _)
LowerFrom(s, i) ==
    IF i > Len(s) THEN <<>>
    ELSE (IF s[i] = "Σ" /\ FinalSigma(s, i) THEN <<"ς">> ELSE LowerChar(s[i]))
         \o LowerFrom(s, i + 1)

\* str.lower()
Lower(s) == LowerFrom(s, 1)

RECURSIVE UpperFrom(_, _)
UpperFrom(s, i) ==
    IF i > Len(s) THEN <<>> ELSE UpperChar(s[i]) \o UpperFrom(s, i + 1)

\* str.upper()
Upper(s) == UpperFrom(s, 1)

RECURSIVE LStrip(_)
LStrip(s) == IF s # <<>> /\ IsSpace(s[1]) THEN LStrip(Tail(s)) ELSE s

RECURSIVE RStrip(_)
RStrip(s) ==
    IF s # <<>> /\ IsSpace(s[Len(s)]) THEN RStrip(SubSeq(s, 1, Len(s) - 1)) ELSE s

\* str.strip()
Strip(s) == RStrip(LStrip(s))

\* sep.join(parts); sep is a str too ("" or ",")
RECURSIVE Join(_, _)
Join(parts, sep) ==
    IF parts = <<>> THEN <<>>
    ELSE IF Len(parts) = 1 THEN parts[1]
    ELSE parts[1] \o sep \o Join(Tail(parts), sep)

\* s.split(sep) for a one-character separator: always at least one part
RECURSIVE SplitFrom(_, _, _)
SplitFrom(s, sep, cur) ==
    IF s = <<>> THEN <<cur>>
    ELSE IF s[1] = sep THEN <<cur>> \o SplitFrom(Tail(s), sep, <<>>)
    ELSE SplitFrom(Tail(s), sep, Append(cur, s[1]))

Split(s, sep) == SplitFrom(s, sep, <<>>)

\* the digits of an int() literal after its sign: digits with single
\* underscores between them
IsDigitBody(b) ==
    /\ b # <<>>
    /\ \A i \in 1..Len(b) : IsDigit(b[i]) \/ b[i] = "_"
    /\ IsDigit(b[1]) /\ IsDigit(b[Len(b)])
    /\ \A i \in 1..(Len(b) - 1) : ~(b[i] = "_" /\ b[i + 1] = "_")

UnsignedPart(t) == IF t # <<>> /\ t[1] \in {"+", "-"} THEN Tail(t) ELSE t

\* the whitespace int() skips around a literal: that of strip() without the
\* separators U+001C..U+001F
IsIntSpace(c) == IsSpace(c) /\ c \notin {"", "", "", ""}

RECURSIVE IntLStrip(_)
IntLStrip(s) == IF s # <<>> /\ IsIntSpace(s[1]) THEN IntLStrip(Tail(s)) ELSE s

RECURSIVE IntRStrip(_)
IntRStrip(s) ==
    IF s # <<>> /\ IsIntSpace(s[Len(s)]) THEN IntRStrip(SubSeq(s, 1, Len(s) - 1))
    ELSE s

IntStrip(s) == IntRStrip(IntLStrip(s))

\* sys.get_int_max_str_digits(): int() of a literal and str() of an int
\* with more decimal digits raise ValueError
MaxStrDigits == 4300

IsDigitChar(c) == c # "_"

\* the digit characters of a digit body, the underscores left out
DigitsOf(b) == SelectSeq(b, IsDigitChar)

\* int(s) does not raise ValueError
IsIntLiteral(s) ==
    /\ IsDigitBody(UnsignedPart(IntStrip(s)))
    /\ Len(DigitsOf(UnsignedPart(IntStrip(s)))) <= MaxStrDigits

\* An int is [neg, mag]: its sign and the decimal digits of its absolute
\* value, the first one not 0; mag is <<>> for 0. It has no upper bound.

\* ds without its leading zeros
Magnitude(ds) ==
    IF \A i \in 1..Len(ds) : ds[i] = 0 THEN <<>>
    ELSE SubSeq(ds, CHOOSE i \in 1..Len(ds) :
                        ds[i] # 0 /\ \A j \in 1..(i - 1) : ds[j] = 0,
                Len(ds))

\* the absolute value that a digit body denotes
DigitsValue(b) == Magnitude([i \in 1..Len(DigitsOf(b)) |-> DigitVal(DigitsOf(b)[i])])

\* int(s), for s with IsIntLiteral(s)
IntOf(s) ==
    [neg |-> IntStrip(s)[1] = "-" /\ DigitsValue(UnsignedPart(IntStrip(s))) # <<>>,
     mag |-> DigitsValue(UnsignedPart(IntStrip(s)))]

RECURSIVE NatDigits(_)
NatDigits(n) == IF n = 0 THEN <<>> ELSE Append(NatDigits(n \div 10), n % 10)

\* the int of a small number of the model
IntFrom(n) == [neg |-> n < 0, mag |-> NatDigits(IF n < 0 THEN 0 - n ELSE n)]

\* a < b for two absolute values
MagLess(a, b) ==
    \/ Len(a) < Len(b)
    \/ /\ Len(a) = Len(b)
       /\ \E i \in 1..Len(a) : a[i] < b[i] /\ \A j \in 1..(i - 1) : a[j] = b[j]

\* x < y
IntLess(x, y) ==
    IF x.neg # y.neg THEN x.neg
    ELSE IF x.neg THEN MagLess(y.mag, x.mag)
    ELSE MagLess(x.mag, y.mag)

\* max(x, y)
IntMax(x, y) == IF IntLess(x, y) THEN y ELSE x

\* n + 1 for an absolute value
MagSucc(a) ==
    IF \A i \in 1..Len(a) : a[i] = 9 THEN <<1>> \o [i \in 1..Len(a) |-> 0]
    ELSE [i \in 1..Len(a) |->
            IF i < (CHOOSE k \in 1..Len(a) :
                        a[k] # 9 /\ \A j \in (k + 1)..Len(a) : a[j] = 9)
            THEN a[i]
            ELSE IF a[i] = 9 THEN 0 ELSE a[i] + 1]

\* x + 1 for x >= 0
IntSucc(x) == [neg |-> FALSE, mag |-> MagSucc(x.mag)]

\* str(x) raises ValueError
StrRaises(x) == Len(x.mag) > MaxStrDigits

\* str(x) for an int
StrOf(x) ==
    (IF x.neg THEN <<"-">> ELSE <<>>)
        \o (IF x.mag = <<>> THEN <<"0">>
            ELSE [i \in 1..Len(x.mag) |-> DigitChars[x.mag[i] + 1]])

\* str(n) for a small number of the model
StrOfInt(n) == StrOf(IntFrom(n))

(***************************************************************************)
(* JSON values                                                             *)
(***************************************************************************)

JNull == [k |-> "null", keys |-> <<>>, vals |-> <<>>, s |-> <<>>, n |-> 0]

JStr(cs) == [k |-> "str", keys |-> <<>>, vals |-> <<>>, s |-> cs, n |-> 0]

JInt(i) == [k |-> "int", keys |-> <<>>, vals |-> <<>>, s |-> <<>>, n |-> i]

JList(items) == [k |-> "list", keys |-> <<>>, vals |-> items, s |-> <<>>, n |-> 0]

JDict(ks, vs) == [k |-> "dict", keys |-> ks, vals |-> vs, s |-> <<>>, n |-> 0]

IsDict(v) == v.k = "dict"

IsList(v) == v.k = "list"

IsStr(v) == v.k = "str"

\* bool(v)
Truthy(v) ==
    CASE v.k = "null" -> FALSE
      [] v.k = "str"  -> v.s # <<>>
      [] v.k = "int"  -> v.n # 0
      [] OTHER        -> v.vals # <<>>

\* key in node
HasKey(node, key) == \E i \in 1..Len(node.keys) : node.keys[i] = key

\* node.get(key), None when the key is missing
Get(node, key) ==
    IF HasKey(node, key)
    THEN node.vals[CHOOSE i \in 1..Len(node.keys) : node.keys[i] = key]
    ELSE JNull

(***************************************************************************)
(* ADF node type names and the canonical schema                            *)
(***************************************************************************)

T_table == <<"t","a","b","l","e">>

T_tableRow == <<"t","a","b","l","e","R","o","w">>

T_tableHeader == <<"t","a","b","l","e","H","e","a","d","e","r">>

T_tableCell == <<"t","a","b","l","e","C","e","l","l">>

T_paragraph == <<"p","a","r","a","g","r","a","p","h">>

T_text == <<"t","e","x","t">>

T_doc == <<"d","o","c">>

\* node.get("type") == name
TypeIs(node, name) == Get(node, "type") = JStr(name)

expected_headers ==
    << <<"O","r","d","e","r">>,
       <<"C","o","m","p","o","n","e","n","t">>,
       <<"B","r","a","n","c","h"," ","N","a","m","e">>,
       <<"C","h","a","n","g","e"," ","R","e","q","u","e","s","t">>,
       <<"E","x","t","e","r","n","a","l"," ","D","e","p","e","n","d","e","n","c","y">> >>

(***************************************************************************)
(* Table location and decoding                                             *)
(***************************************************************************)

RECURSIVE walk_adf_tables(_), WalkAll(_)

\* the list `found` after walk_adf_tables(node, []): every table node, in
\* pre-order; a table's own children are walked too
walk_adf_tables(node) ==
    IF IsDict(node)
    THEN (IF TypeIs(node, T_table) THEN <<node>> ELSE <<>>) \o WalkAll(node.vals)
    ELSE IF IsList(node) THEN WalkAll(node.vals)
    ELSE <<>>

WalkAll(items) ==
    IF items = <<>> THEN <<>>
    ELSE walk_adf_tables(items[1]) \o WalkAll(Tail(items))

\* the outcome of an exception (AttributeError, TypeError) in place of a value
JRaise == [k |-> "raise", keys |-> <<>>, vals |-> <<>>, s |-> <<>>, n |-> 0]

RECURSIVE extract_text(_), ExtractAll(_, _)

\* extract_text(node): the returned value; a text node returns whatever its
\* "text" entry holds, and txt += <non-str> raises TypeError
extract_text(node) ==
    IF ~IsDict(node) THEN JStr(<<>>)
    ELSE IF TypeIs(node, T_text)
    THEN (IF HasKey(node, "text") THEN Get(node, "text") ELSE JStr(<<>>))
    ELSE LET txt == IF HasKey(node, "text") /\ IsStr(Get(node, "text"))
                    THEN Get(node, "text").s ELSE <<>>
         IN IF HasKey(node, "content") /\ IsList(Get(node, "content"))
            THEN ExtractAll(Get(node, "content").vals, txt)
            ELSE JStr(txt)

\* the loop `for ch in node["content"]: txt += extract_text(ch)`
ExtractAll(items, txt) ==
    IF items = <<>> THEN JStr(txt)
    ELSE LET r == extract_text(items[1])
         IN IF IsStr(r) THEN ExtractAll(Tail(items), txt \o r.s) ELSE JRaise

\* `for x in (v or [])`: the items visited, or a TypeError for a number.
\* A str yields its characters and a dict its keys, as str values.
IterOrEmpty(v) ==
    IF ~Truthy(v) THEN [raises |-> FALSE, items |-> <<>>]
    ELSE IF IsList(v) THEN [raises |-> FALSE, items |-> v.vals]
    ELSE IF IsStr(v)
    THEN [raises |-> FALSE, items |-> [i \in 1..Len(v.s) |-> JStr(<<v.s[i]>>)]]
    ELSE IF IsDict(v)
    THEN [raises |-> FALSE, items |-> [i \in 1..Len(v.keys) |-> JStr(<<v.keys[i]>>)]]
    ELSE [raises |-> TRUE, items |-> <<>>]

\* "".join(extract_text(c) for c in cell content).strip(), or JRaise
CellText(cell) ==
    LET it == IterOrEmpty(Get(cell, "content"))
        parts == [i \in 1..Len(it.items) |-> extract_text(it.items[i])]
    IN IF it.raises \/ \E i \in 1..Len(parts) : ~IsStr(parts[i]) THEN JRaise
       ELSE JStr(Strip(Join([i \in 1..Len(parts) |-> parts[i].s], <<>>)))

\* one iteration of the row loop: raises, is_header_row and row_vals
DecodeRow(row) ==
    IF ~IsDict(row) THEN [raises |-> TRUE, is_header_row |-> FALSE, row_vals |-> <<>>]
    ELSE LET it == IterOrEmpty(Get(row, "content"))
             cells == it.items
         IN IF it.raises \/ \E i \in 1..Len(cells) : ~IsDict(cells[i])
            THEN [raises |-> TRUE, is_header_row |-> FALSE, row_vals |-> <<>>]
            ELSE LET texts == [i \in 1..Len(cells) |-> CellText(cells[i])]
                 IN IF \E i \in 1..Len(texts) : ~IsStr(texts[i])
                    THEN [raises |-> TRUE, is_header_row |-> FALSE, row_vals |-> <<>>]
                    ELSE [raises |-> FALSE,
                          is_header_row |->
                              /\ \A i \in 1..Len(cells) : TypeIs(cells[i], T_tableHeader)
                              /\ Len(cells) > 0,
                          row_vals |-> [i \in 1..Len(texts) |-> texts[i].s]]

Max(a, b) == IF a >= b THEN a ELSE b

RECURSIVE MaxLen(_)
\* max((len(r) for r in data), default=0)
MaxLen(data) == IF data = <<>> THEN 0 ELSE Max(Len(data[1]), MaxLen(Tail(data)))

\* r + [""] * (width - len(r))
PadTo(r, width) == [i \in 1..Max(width, Len(r)) |-> IF i <= Len(r) THEN r[i] ELSE <<>>]

\* mutant of ColNames: the names count from 0
ColNames_m(width) == [i \in 1..width |-> <<"C","o","l">> \o StrOfInt(i - 1)]

\* [f"Col{i + 1}" for i in range(width)]
ColNames(width) == [i \in 1..width |-> <<"C","o","l">> \o StrOfInt(i)]

RECURSIVE DataRows(_, _)
\* the rows appended to `data`: every row but a header row at index 0
DataRows(decoded, idx) ==
    IF idx > Len(decoded) THEN <<>>
    ELSE IF idx = 1 /\ decoded[idx].is_header_row THEN DataRows(decoded, idx + 1)
    ELSE <<decoded[idx].row_vals>> \o DataRows(decoded, idx + 1)

\* the row loop over the rows of the table
DecodedRows(items) == [i \in 1..Len(items) |-> DecodeRow(items[i])]

\* the header row, the data and the normalization to one width, for the
\* decoded rows of a table
NormalizedTable(decoded) ==
    IF \E i \in 1..Len(decoded) : decoded[i].raises
    THEN [raises |-> TRUE, headers |-> <<>>, data |-> <<>>]
    ELSE LET hdr == IF decoded # <<>> /\ decoded[1].is_header_row
                    THEN decoded[1].row_vals ELSE <<>>
             data == DataRows(decoded, 1)
             width == Max(Len(hdr), MaxLen(data))
         IN [raises |-> FALSE,
             headers |-> IF hdr # <<>> THEN PadTo(hdr, width) ELSE ColNames(width),
             data |-> [i \in 1..Len(data) |-> PadTo(data[i], width)]]

\* adf_table_to_rows(table_node): (headers, data), or raises
adf_table_to_rows(table_node) ==
    IF IterOrEmpty(Get(table_node, "content")).raises
    THEN [raises |-> TRUE, headers |-> <<>>, data |-> <<>>]
    ELSE NormalizedTable(DecodedRows(IterOrEmpty(Get(table_node, "content")).items))

(***************************************************************************)
(* The upsert: key lookup, next Order, new row                             *)
(***************************************************************************)

comp_idx == 1

\* upsert_raw: the CSV line built from --component and --branch-name
UpsertRaw(comp_arg, branch_arg) ==
    IF comp_arg # <<>> \/ branch_arg # <<>>
    THEN Strip(Join(<<Strip(comp_arg), Strip(branch_arg), <<>>, <<>>>>, <<",">>))
    ELSE <<>>

\* parts = [p.strip() for p in upsert_raw.split(",")]
UpsertParts(upsert_raw) ==
    LET sp == Split(upsert_raw, ",") IN [i \in 1..Len(sp) |-> Strip(sp[i])]

\* parts[i] if len(parts) > i else ""   (i counts from 0)
PartAt(parts, i) == IF Len(parts) > i THEN parts[i + 1] ELSE <<>>

\* mutant of HeadersMismatch: the names are compared without lower()
HeadersMismatch_m(hdrs) ==
    [i \in 1..Len(hdrs) |-> Strip(hdrs[i])]
        # [i \in 1..Len(expected_headers) |-> Strip(expected_headers[i])]

\* norm_hdrs != norm_expected
HeadersMismatch(hdrs) ==
    [i \in 1..Len(hdrs) |-> Lower(Strip(hdrs[i]))]
        # [i \in 1..Len(expected_headers) |-> Lower(Strip(expected_headers[i]))]

\* mutant of RowMatches: the Component cells are compared in their own case
RowMatches_m(r, comp) ==
    /\ Len(r) > comp_idx
    /\ Strip(r[comp_idx + 1]) = Strip(comp)

\* the condition of the conflict loop for one row
RowMatches(r, comp) ==
    /\ Len(r) > comp_idx
    /\ Lower(Strip(r[comp_idx + 1])) = Lower(Strip(comp))

\* index of the first row the conflict loop stops at, 0 when it finishes
FirstMatch(rs, comp) ==
    IF \E i \in 1..Len(rs) : RowMatches(rs[i], comp)
    THEN CHOOSE i \in 1..Len(rs) :
            /\ RowMatches(rs[i], comp)
            /\ \A j \in 1..(i - 1) : ~RowMatches(rs[j], comp)
    ELSE 0

\* the Order cells the generator feeds to int(): r[0] for r in rows if r and r[0] != ""
OrderCells(rs) ==
    LET Keep(r) == r # <<>> /\ r[1] # <<>>
        F[i \in 0..Len(rs)] ==
            IF i = 0 THEN <<>>
            ELSE IF Keep(rs[i]) THEN Append(F[i - 1], rs[i][1]) ELSE F[i - 1]
    IN F[Len(rs)]

RECURSIVE MaxInt(_, _)
\* max(int(c) for c in cells, default=dflt)
MaxInt(cells, dflt) ==
    IF cells = <<>> THEN dflt
    ELSE IF Len(cells) = 1 THEN IntOf(cells[1])
    ELSE IntMax(IntOf(cells[1]), MaxInt(Tail(cells), dflt))

\* max_order: the try block, and the except branch when any int() raises
MaxOrder(rs) ==
    LET cells == OrderCells(rs)
    IN IF \A i \in 1..Len(cells) : IsIntLiteral(cells[i])
       THEN MaxInt(cells, IntFrom(-1))
       ELSE IntFrom(Len(rs) - 1)

\* mutant of NewOrder: the fallback value is used as the new Order itself
NewOrder_m(rs) == IF ~MaxOrder(rs).neg THEN MaxOrder(rs) ELSE IntFrom(0)

\* new_order = max_order + 1 if max_order >= 0 else 0
NewOrder(rs) == IF ~MaxOrder(rs).neg THEN IntSucc(MaxOrder(rs)) ELSE IntFrom(0)

\* new_row = [str(new_order), comp, branch, change_req, ext_dep]
NewRow(rs, parts) ==
    <<StrOf(NewOrder(rs)), PartAt(parts, 0), PartAt(parts, 1),
      PartAt(parts, 2), PartAt(parts, 3)>>

\* mutant of AppendRow: the new row is inserted first
AppendRow_m(rs, nrow) == <<nrow>> \o rs

\* rows.append(new_row)
AppendRow(rs, nrow) == Append(rs, nrow)

(***************************************************************************)
(* Table builder                                                           *)
(***************************************************************************)

make_paragraph(text) ==
    JDict(<<"type", "content">>,
          <<JStr(T_paragraph),
            JList(<<JDict(<<"type", "text">>, <<JStr(T_text), JStr(text)>>)>>)>>)

make_table_header_cell(text) ==
    JDict(<<"type", "content">>, <<JStr(T_tableHeader), JList(<<make_paragraph(text)>>)>>)

make_table_cell(text) ==
    JDict(<<"type", "content">>, <<JStr(T_tableCell), JList(<<make_paragraph(text)>>)>>)

TableRowNode(cells) == JDict(<<"type", "content">>, <<JStr(T_tableRow), JList(cells)>>)

build_adf_table(headers_list, rows_list) ==
    LET header_row ==
            TableRowNode([i \in 1..Len(headers_list) |->
                              make_table_header_cell(headers_list[i])])
        data_rows ==
            [j \in 1..Len(rows_list) |->
                TableRowNode([i \in 1..Len(rows_list[j]) |->
                                  make_table_cell(rows_list[j][i])])]
    IN JDict(<<"type", "content">>, <<JStr(T_table), JList(<<header_row>> \o data_rows)>>)

(***************************************************************************)
(* Tree splicer                                                            *)
(***************************************************************************)

\* {"type": "doc", "version": 1, "content": content}
DocWrapper(content) ==
    JDict(<<"type", "version", "content">>, <<JStr(T_doc), JInt(1), JList(content)>>)

\* node[key] = val for a key the dict has
SetKey(node, key, val) ==
    [node EXCEPT !.vals[CHOOSE i \in 1..Len(node.keys) : node.keys[i] = key] = val]

RECURSIVE walk(_, _, _), WalkValues(_, _, _, _), WalkItems(_, _, _, _)

\* walk(node) of replace_or_append_first_table: the node as the call leaves
\* it and the flag `replaced`.  clear() + update(new_table) leaves a dict
\* equal to new_table.
walk(node, replaced, new_table) ==
    IF IsDict(node)
    THEN IF TypeIs(node, T_table) /\ ~replaced
         THEN [node |-> new_table, replaced |-> TRUE]
         ELSE LET r == WalkValues(node.vals, 1, replaced, new_table)
              IN [node |-> [node EXCEPT !.vals = r.vals], replaced |-> r.replaced]
    ELSE IF IsList(node)
    THEN LET r == WalkItems(node.vals, 1, replaced, new_table)
         IN [node |-> [node EXCEPT !.vals = r.vals], replaced |-> r.replaced]
    ELSE [node |-> node, replaced |-> replaced]

\* for k, v in node.items(): walk(v)
WalkValues(vals, i, replaced, new_table) ==
    IF i > Len(vals) THEN [vals |-> vals, replaced |-> replaced]
    ELSE LET r == walk(vals[i], replaced, new_table)
         IN WalkValues([vals EXCEPT ![i] = r.node], i + 1, r.replaced, new_table)

\* for i, item in enumerate(node): replace and return, or walk(item)
WalkItems(items, i, replaced, new_table) ==
    IF i > Len(items) THEN [vals |-> items, replaced |-> replaced]
    ELSE IF IsDict(items[i]) /\ TypeIs(items[i], T_table) /\ ~replaced
    THEN [vals |-> [items EXCEPT ![i] = new_table], replaced |-> TRUE]
    ELSE LET r == walk(items[i], replaced, new_table)
         IN WalkItems([items EXCEPT ![i] = r.node], i + 1, r.replaced, new_table)

\* replace_or_append_first_table(adf_desc, new_table): the returned pair and
\* the value the argument object holds afterwards (desc_copy is an alias)
replace_or_append_first_table(adf_desc, new_table) ==
    IF ~Truthy(adf_desc) \/ ~IsDict(adf_desc)
    THEN [new_desc |-> DocWrapper(<<new_table>>), replaced |-> TRUE,
          tag |-> "doc_wrapper", adf_desc |-> adf_desc]
    ELSE LET w == walk(adf_desc, FALSE, new_table)
         IN IF w.replaced
            THEN [new_desc |-> w.node, replaced |-> TRUE,
                  tag |-> "replaced", adf_desc |-> w.node]
            ELSE IF HasKey(w.node, "content") /\ IsList(Get(w.node, "content"))
            THEN LET app == SetKey(w.node, "content",
                                   JList(Append(Get(w.node, "content").vals, new_table)))
                 IN [new_desc |-> app, replaced |-> TRUE,
                     tag |-> "appended", adf_desc |-> app]
            ELSE [new_desc |-> DocWrapper(<<adf_desc, new_table>>), replaced |-> TRUE,
                  tag |-> "fallback", adf_desc |-> adf_desc]

\* final_desc: the payload of the PUT
FinalDesc(nd) == IF IsDict(nd) /\ TypeIs(nd, T_doc) THEN nd ELSE DocWrapper(<<nd>>)

(***************************************************************************)
(* main, upsert command: from the fetched description to the new one       *)
(***************************************************************************)

\* headers, rows = adf_table_to_rows(tables[0]) when desc holds a table
DecodeDesc(d) ==
    IF Truthy(d) /\ walk_adf_tables(d) # <<>>
    THEN adf_table_to_rows(walk_adf_tables(d)[1])
    ELSE [raises |-> FALSE, headers |-> <<>>, data |-> <<>>]

NoRow == <<>>

\* a run that ends before a row is added: what it leaves behind
Outcome(res, d, has, ext, hdrs, rs, old) ==
    [result |-> res, has_table |-> has, extracted |-> ext,
     headers |-> hdrs, rows |-> rs, old_row |-> old, new_row |-> NoRow,
     new_table_node |-> JNull, new_desc |-> JNull, final_desc |-> JNull,
     desc |-> d, tag |-> "none"]

\* the table is rebuilt and spliced, the payload is made
UpsertAdded(d, ext, hdrs, rs2, nrow, ntab) ==
    LET sp == replace_or_append_first_table(d, ntab)
    IN [result |-> "added", has_table |-> TRUE, extracted |-> ext,
        headers |-> hdrs, rows |-> rs2, old_row |-> NoRow, new_row |-> nrow,
        new_table_node |-> ntab, new_desc |-> sp.new_desc,
        final_desc |-> FinalDesc(sp.new_desc), desc |-> sp.adf_desc,
        tag |-> sp.tag]

\* rows.append(new_row) and new_table_node = build_adf_table(headers, rows)
UpsertRow(d, ext, hdrs, rs, nrow) ==
    UpsertAdded(d, ext, hdrs, AppendRow(rs, nrow), nrow,
                build_adf_table(hdrs, AppendRow(rs, nrow)))

\* the schema check, the conflict loop and the new row; str(new_order) may
\* raise
UpsertTable(d, ext, hdrs, rs, parts) ==
    IF HeadersMismatch(hdrs)
    THEN Outcome("schema_mismatch", d, TRUE, ext, hdrs, rs, NoRow)
    ELSE IF FirstMatch(rs, PartAt(parts, 0)) # 0
    THEN Outcome("conflict", d, TRUE, ext, hdrs, rs,
                 rs[FirstMatch(rs, PartAt(parts, 0))])
    ELSE IF StrRaises(NewOrder(rs))
    THEN Outcome("crash", d, TRUE, ext, hdrs, rs, NoRow)
    ELSE UpsertRow(d, ext, hdrs, rs, NewRow(rs, parts))

\* has_table, the synthesized headers and the parts of upsert_raw
UpsertDecoded(d, dec, upsert_raw) ==
    LET found_table == dec.headers # <<>> \/ dec.data # <<>>
        ext == [headers |-> dec.headers, rows |-> dec.data]
    IN IF dec.raises
       THEN Outcome("crash", d, found_table, ext, dec.headers, dec.data, NoRow)
       ELSE IF upsert_raw = <<>>
       THEN Outcome("none", d, found_table, ext, dec.headers, dec.data, NoRow)
       ELSE UpsertTable(d, ext,
                        IF found_table THEN dec.headers ELSE expected_headers,
                        IF found_table THEN dec.data ELSE <<>>,
                        UpsertParts(upsert_raw))

\* lines 660-900 of main for one fetched description and one pair of
\* arguments: how the run ends and what it computed
UpsertRun(d, comp_arg, branch_arg) ==
    UpsertDecoded(d, DecodeDesc(d), UpsertRaw(comp_arg, branch_arg))

(***************************************************************************)
(* Upsert prerequisites                                                    *)
(***************************************************************************)

\* --issuetype, at its default
issuetype_arg == <<"R","E","L","-","S","C","O","P","E">>

\* --blocked-statuses, at its default
blocked_statuses == << <<"A","P","P","R","O","V","E","D">>, <<"C","L","O","S","E","D">> >>

S_allowed == <<"a","l","l","o","w","e","d">>

\* issuetype_name == issuetype
TypeCorrect(f) == f.issuetype = issuetype_arg

\* permission_field_value.get("value", "") for a dict, whatever its type
ValueOf(p) == IF HasKey(p, "value") THEN Get(p, "value") ELSE JStr(<<>>)

\* field_value.strip().lower() == "allowed"
ReadsAllowed(s) == Lower(Strip(s)) = S_allowed

\* the check of the permission field: "missing" when the field is None;
\* for a dict "raises" when its "value" is not a str (field_value.strip()
\* is an AttributeError); else whether field_value reads "allowed". For a
\* value that is neither a dict nor a str field_value is str() of a number
\* or of a list: it starts with a digit, a sign or a bracket and is never
\* "allowed"
PermissionCheck(f) ==
    IF f.permission = JNull THEN "missing"
    ELSE IF IsDict(f.permission)
    THEN (IF ~IsStr(ValueOf(f.permission)) THEN "raises"
          ELSE IF ReadsAllowed(ValueOf(f.permission).s) THEN "allowed"
          ELSE "denied")
    ELSE IF IsStr(f.permission) /\ ReadsAllowed(f.permission.s) THEN "allowed"
    ELSE "denied"

\* current_status.upper() in [s.upper() for s in blocked_statuses]
StatusBlocked(f) ==
    \E i \in 1..Len(blocked_statuses) : Upper(f.status) = Upper(blocked_statuses[i])

\* validate_upsert_prerequisites(...) for the fields of its fetch: "valid" or
\* "invalid" for the "valid" of the dict it returns, "raises" when it does
\* not return
validate_upsert_prerequisites(f, pf) ==
    IF pf /\ PermissionCheck(f) = "raises" THEN "raises"
    ELSE IF /\ TypeCorrect(f)
            /\ pf => PermissionCheck(f) = "allowed"
            /\ ~StatusBlocked(f)
    THEN "valid"
    ELSE "invalid"

\* how the checks main repeats on the processing fetch end the run, "" if
\* they pass: the die() of the permission field or of the status, or the
\* uncaught AttributeError; the type is only recorded there
RecheckDie(f, pf) ==
    IF pf /\ PermissionCheck(f) = "missing" THEN "permission_missing"
    ELSE IF pf /\ PermissionCheck(f) = "raises" THEN "exception"
    ELSE IF pf /\ PermissionCheck(f) = "denied" THEN "permission_denied"
    ELSE IF StatusBlocked(f) THEN "status_blocked"
    ELSE ""

\* the hard validation after the write-back: die unless is_correct_type
FinalPc(f) == IF TypeCorrect(f) THEN "done" ELSE "exit"

FinalDie(f) == IF TypeCorrect(f) THEN "" ELSE "wrong_type"

(***************************************************************************)
(* main, lookup command                                                    *)
(***************************************************************************)

branch_idx == 2

\* the component test of the lookup loop for one row
LookupRowMatches(r, comp_arg) ==
    /\ Len(r) > comp_idx
    /\ Lower(Strip(r[comp_idx + 1])) = Lower(Strip(comp_arg))

\* index of the row the lookup loop breaks at, 0 when it finishes
FirstLookupMatch(rs, comp_arg) ==
    IF \E i \in 1..Len(rs) : LookupRowMatches(rs[i], comp_arg)
    THEN CHOOSE i \in 1..Len(rs) :
            /\ LookupRowMatches(rs[i], comp_arg)
            /\ \A j \in 1..(i - 1) : ~LookupRowMatches(rs[j], comp_arg)
    ELSE 0

\* mutant of BranchMatches: the branch is compared as it stands, untrimmed
BranchMatches_m(r, rb_arg) == Len(r) > branch_idx /\ r[branch_idx + 1] = rb_arg

\* the branch test of the lookup loop for the row the component was found in
BranchMatches(r, rb_arg) == Len(r) > branch_idx /\ Strip(r[branch_idx + 1]) = Strip(rb_arg)

\* what a lookup that got as far as the table leaves behind
LookupOutcome(d, dec, m, rb_arg) ==
    [died |-> IF dec.raises THEN "exception"
              ELSE IF m = 0 THEN "component_not_found"
              ELSE IF ~BranchMatches(dec.data[m], rb_arg) THEN "branch_mismatch"
              ELSE "",
     desc |-> d,
     headers |-> dec.headers, rows |-> dec.data,
     has_table |-> dec.headers # <<>> \/ dec.data # <<>>,
     component_found |-> m # 0,
     branch_matches |-> m # 0 /\ BranchMatches(dec.data[m], rb_arg),
     matching_row |-> IF m # 0 /\ BranchMatches(dec.data[m], rb_arg)
                      THEN dec.data[m] ELSE NoRow]

\* the first table of the single ticket and the loop over its rows
LookupTicket(d, dec, comp_arg, rb_arg) ==
    LookupOutcome(d, dec,
                  IF dec.raises THEN 0 ELSE FirstLookupMatch(dec.data, comp_arg), rb_arg)

\* the lookup command after the search returned `found`
LookupRun(found, comp_arg, rb_arg) ==
    IF Len(found) # 1
    THEN [died |-> IF found = <<>> THEN "no_ticket" ELSE "multiple_tickets",
          desc |-> JNull, headers |-> <<>>, rows |-> <<>>, has_table |-> FALSE,
          component_found |-> FALSE, branch_matches |-> FALSE, matching_row |-> NoRow]
    ELSE LookupTicket(found[1], DecodeDesc(found[1]), comp_arg, rb_arg)

(***************************************************************************)
(* Inputs: arguments and descriptions                                      *)
(***************************************************************************)

S_svc_a == <<"s","v","c","-","a">>

S_svc_b == <<"s","v","c","-","b">>

S_SVC_A_ws == <<" ","S","V","C","-","A"," ">>

S_Svc_A == <<"S","v","c","-","A">>

S_a_comma_b == <<"a",",","b">>

S_ws == <<" ">>

S_dev == <<"d","e","v">>

S_v2_ws == <<" ","v","2"," ">>

S_r_comma_1 == <<"r",",","1">>

S_main == <<"m","a","i","n">>

S_0 == <<"0">>

S_1 == <<"1">>

S_2 == <<"2">>

S_3 == <<"3">>

S_4 == <<"4">>

S_5 == <<"5">>

S_x == <<"x">>

S_y == <<"y">>

S_neg3 == <<"-","3">>

S_hi == <<"h","i">>

S_intro == <<"i","n","t","r","o">>

S_outro == <<"o","u","t","r","o">>

S_note == <<"n","o","t","e">>

S_sv == <<"s","v">>

S_c_a == <<"c","-","a"," ">>

T_expand == <<"e","x","p","a","n","d">>

T_layout == <<"l","a","y","o","u","t","S","e","c","t","i","o","n">>

S_Branch == <<"B","r","a","n","c","h">>

S_junk == <<"j","u","n","k">>

S_k == <<"k">>

S_v == <<"v">>

S_empty == <<>>

\* row i of a generated table carries this component
GenComponent(i) == IF i = 1 THEN S_svc_a ELSE <<"r">> \o StrOfInt(i)

Components == {S_svc_b, S_SVC_A_ws, S_a_comma_b, S_ws, S_empty}

Branches == {S_dev, S_empty, S_v2_ws, S_r_comma_1}

\* "main" between a tab and a no-break space
S_main_ws == <<"\t","m","a","i","n"," ">>

\* --release-branch of the lookup command
ReleaseBranches == {S_main, S_main_ws, S_dev, S_empty}

MaxRows == 2

\* the most tickets a search returns
MaxTickets == 2

OrderPool == {S_empty, S_0, S_5, S_x, S_neg3}

Para(text) == make_paragraph(text)

Box(type, content) == JDict(<<"type", "content">>, <<JStr(type), JList(content)>>)

RowA == <<S_0, S_svc_a, S_main, S_empty, S_empty>>

TableA == build_adf_table(expected_headers, <<RowA>>)

\* the same component twice, first on dev and then on main
TableTwoBranches ==
    build_adf_table(expected_headers,
                    <<<<S_0, S_Svc_A, S_dev, S_empty, S_empty>>,
                      <<S_1, S_svc_a, S_main, S_empty, S_empty>>>>)

\* a later, unrelated table
TableB == build_adf_table(<<S_k, S_v>>, << <<S_x, S_y>> >>)

\* canonical tables with up to MaxRows rows, every Order cell drawn from OrderPool
GenTables ==
    UNION { { build_adf_table(expected_headers,
                  [i \in 1..n |-> <<f[i], GenComponent(i), S_main, S_empty, S_empty>>]) :
              f \in [1..n -> OrderPool] } : n \in 0..MaxRows }


\* a table whose first row is made of data cells: no header row
TableNoHeader ==
    Box(T_table, <<TableRowNode(<<make_table_cell(S_0), make_table_cell(S_svc_a)>>)>>)

\* a cell whose paragraph holds two text runs, "sv" and "c-a "
CellTwoRuns ==
    Box(T_tableCell,
        <<Box(T_paragraph, <<JDict(<<"type", "text">>, <<JStr(T_text), JStr(S_sv)>>),
                             JDict(<<"type", "text">>, <<JStr(T_text), JStr(S_c_a)>>)>>)>>)

\* canonical header row, then a row whose Component cell is CellTwoRuns
TableTwoRuns ==
    Box(T_table,
        <<TableRowNode([i \in 1..5 |-> make_table_header_cell(expected_headers[i])]),
          TableRowNode(<<make_table_cell(S_3), CellTwoRuns, make_table_cell(S_main),
                         make_table_cell(S_empty), make_table_cell(S_empty)>>)>>)

\* a canonical table whose first Order cell holds a nested table
TableNested ==
    Box(T_table,
        <<TableRowNode([i \in 1..5 |-> make_table_header_cell(expected_headers[i])]),
          TableRowNode(<<Box(T_tableCell, <<Para(S_1), TableB>>), make_table_cell(S_svc_a),
                         make_table_cell(S_main), make_table_cell(S_empty),
                         make_table_cell(S_empty)>>)>>)

HandDocs ==
    { \* absent, empty and scalar descriptions
      JNull, JDict(<<>>, <<>>), JList(<<>>), JStr(S_hi), JInt(7),
      \* scenario A: one canonical table
      DocWrapper(<<TableA>>),
      \* a table at depth 3 between siblings, and a later table
      DocWrapper(<<Para(S_intro),
                   Box(T_expand, <<Para(S_note),
                                   Box(T_layout, <<Para(S_hi), TableA, Para(S_x)>>),
                                   Para(S_y)>>),
                   Para(S_outro), TableB>>),
      DocWrapper(<<TableA, TableB>>),
      DocWrapper(<<TableTwoBranches>>),
      \* the table is the value of a mapping entry, met before the content list
      JDict(<<"type", "attrs", "content">>,
            <<JStr(T_doc), TableA, JList(<<Para(S_hi), TableB>>)>>),
      \* "content" is a mapping, not a list
      JDict(<<"type", "content">>, <<JStr(T_doc), TableA>>),
      JDict(<<"type", "content">>, <<JStr(T_doc), Para(S_hi)>>),
      \* roots that are not a doc
      TableA,
      Box(T_paragraph, <<Para(S_hi), TableA>>),
      JDict(<<"type", "text">>, <<JStr(T_paragraph), JStr(S_x)>>),
      \* documents without a table
      DocWrapper(<<Para(S_intro), Para(S_outro)>>),
      DocWrapper(<<>>),
      \* list roots
      JList(<<Para(S_intro), TableA>>), JList(<<TableA>>), JList(<<Para(S_intro)>>),
      \* headers in another case and with surrounding whitespace
      DocWrapper(<<build_adf_table(
          << <<" ","O","R","D","E","R"," ">>, <<"c","o","m","p","o","n","e","n","t">>,
             <<"B","R","A","N","C","H"," ","n","a","m","e">>,
             <<"C","h","a","n","g","e"," ","r","e","q","u","e","s","t">>,
             <<"e","x","t","e","r","n","a","l"," ","D","e","p","e","n","d","e","n","c","y","\n">> >>,
          <<RowA>>)>>),
      \* headers that do not match: a wrong name, a missing column, another
      \* order, a data row wider than the header, no header row, no cells
      DocWrapper(<<build_adf_table([expected_headers EXCEPT ![3] = S_Branch], <<RowA>>)>>),
      DocWrapper(<<build_adf_table(SubSeq(expected_headers, 1, 4),
                                   << <<S_0, S_svc_a, S_main, S_empty>> >>)>>),
      DocWrapper(<<build_adf_table([expected_headers EXCEPT ![1] = expected_headers[2],
                                                            ![2] = expected_headers[1]],
                                   <<RowA>>)>>),
      DocWrapper(<<build_adf_table(expected_headers, <<Append(RowA, S_x)>>)>>),
      DocWrapper(<<TableNoHeader>>),
      DocWrapper(<<Box(T_table, <<TableRowNode(<<>>)>>)>>),
      \* a table node without rows
      DocWrapper(<<Para(S_intro), Box(T_table, <<>>), Para(S_outro)>>),
      \* rows: two case variants of one key, a blank key, a key with a comma,
      \* a key split over two text runs, orders 5 and 2, a nested table
      DocWrapper(<<build_adf_table(expected_headers,
          << <<S_3, S_Svc_A, S_x, S_empty, S_empty>>,
             <<S_4, S_svc_a, S_y, S_empty, S_empty>> >>)>>),
      DocWrapper(<<build_adf_table(expected_headers,
          << <<S_0, S_empty, S_main, S_empty, S_empty>> >>)>>),
      DocWrapper(<<build_adf_table(expected_headers,
          << <<S_0, S_a_comma_b, S_main, S_empty, S_empty>> >>)>>),
      DocWrapper(<<TableTwoRuns>>),
      DocWrapper(<<build_adf_table(expected_headers,
          << <<S_5, S_x, S_main, S_empty, S_empty>>,
             <<S_2, S_y, S_main, S_empty, S_empty>> >>)>>),
      DocWrapper(<<TableNested, Para(S_outro)>>),
      \* malformed tables: a row that is a string, rows that are a number,
      \* a text node whose text is null
      DocWrapper(<<Box(T_table, <<JStr(S_junk)>>)>>),
      DocWrapper(<<JDict(<<"type", "content">>, <<JStr(T_table), JInt(5)>>)>>),
      DocWrapper(<<Box(T_table, <<TableRowNode(<<Box(T_tableCell,
          <<JDict(<<"type", "text">>, <<JStr(T_text), JNull>>)>>)>>)>>)>>) }

S_Open == <<"O","p","e","n">>

\* the fields of an issue that passes every prerequisite check
F_ok ==
    [issuetype |-> issuetype_arg,
     permission |-> JDict(<<"value">>, <<JStr(<<" ","A","l","l","o","w","e","d"," ">>)>>),
     status |-> S_Open]

\* another issue type, a permission that is not "allowed" (a plain string),
\* no permission field, a blocked status in another case
F_wrong_type == [F_ok EXCEPT !.issuetype = <<"B","u","g">>]

F_denied == [F_ok EXCEPT !.permission = JStr(<<"D","e","n","i","e","d">>)]

F_no_permission == [F_ok EXCEPT !.permission = JNull]

F_blocked == [F_ok EXCEPT !.status = <<"a","p","p","r","o","v","e","d">>]

\* a permission field whose "value" is null, and one that is a list of options
F_null_value == [F_ok EXCEPT !.permission = JDict(<<"value">>, <<JNull>>)]

F_listed == [F_ok EXCEPT !.permission = JList(<<F_ok.permission>>)]

IssueStates ==
    {F_ok, F_wrong_type, F_denied, F_no_permission, F_blocked, F_null_value, F_listed}

\* `fields` before any fetch
NoFields == [issuetype |-> <<>>, permission |-> JNull, status |-> <<>>]

\* descriptions for the runs on an edited issue: scenario A, none, no table
RaceDocs == {DocWrapper(<<TableA>>), JNull, DocWrapper(<<Para(S_intro), Para(S_outro)>>)}

Docs == HandDocs \cup { DocWrapper(<<Para(S_intro), t>>) : t \in GenTables }

(***************************************************************************)
(* The run                                                                 *)
(***************************************************************************)

\* no run of main has started
RunIdle ==
    /\ pc = "idle" /\ command = "none"
    /\ component = <<>> /\ branch_name = <<>> /\ release_branch = <<>>
    /\ perm_field = FALSE /\ skip_update = FALSE
    /\ snapshot = NoFields /\ fetched = JNull /\ desc = JNull
    /\ extracted = [headers |-> <<>>, rows |-> <<>>]
    /\ headers = <<>> /\ rows = <<>> /\ has_table = FALSE
    /\ result = "none" /\ old_row = NoRow /\ new_row = NoRow
    /\ new_table_node = JNull /\ new_desc = JNull /\ final_desc = JNull
    /\ splice_tag = "none"
    /\ puts = 0 /\ died = ""
    /\ issues = <<>> /\ component_found = FALSE /\ branch_matches = FALSE
    /\ matching_row = NoRow /\ lookup_result = ""

Init ==
    /\ store \in Docs
    /\ issue = F_ok
    /\ RunIdle
    /\ calls = <<>> /\ values = <<>>
    /\ origin = store /\ log = <<>>

\* argument validation of the upsert command (a missing argument is "")
Invoke(c, b, skip, pf) ==
    /\ pc = "idle"
    /\ command' = "upsert"
    /\ component' = c /\ branch_name' = b /\ skip_update' = skip /\ perm_field' = pf
    /\ IF c = <<>> \/ b = <<>>
       THEN pc' = "exit" /\ result' = "usage_error" /\ died' = "usage"
       ELSE pc' = "validate" /\ result' = "none" /\ died' = ""
    /\ UNCHANGED <<store, issue, release_branch, snapshot, fetched, desc, extracted,
                   headers, rows, has_table, old_row, new_row, new_table_node,
                   new_desc, final_desc, splice_tag, puts, issues, component_found,
                   branch_matches, matching_row, lookup_result>>
    /\ UNCHANGED callVars
    /\ UNCHANGED seqVars

\* the tracker: somebody edits the issue while the run is between two requests
IssueChange(f) ==
    /\ pc \in {"validate", "fetch"}
    /\ issue # f
    /\ issue' = f
    /\ UNCHANGED <<store, pc, command, component, branch_name, release_branch,
                   perm_field, skip_update, snapshot, fetched, desc, extracted,
                   headers, rows, has_table, result, old_row, new_row,
                   new_table_node, new_desc, final_desc, splice_tag, puts, died,
                   issues, component_found, branch_matches, matching_row,
                   lookup_result>>
    /\ UNCHANGED callVars
    /\ UNCHANGED seqVars

\* validation = validate_upsert_prerequisites(...), on a fetch of its own
Validate ==
    /\ pc = "validate"
    /\ pc' = IF validate_upsert_prerequisites(issue, perm_field) = "valid"
             THEN "fetch" ELSE "exit"
    /\ died' = CASE validate_upsert_prerequisites(issue, perm_field) = "valid" -> ""
                 [] validate_upsert_prerequisites(issue, perm_field) = "raises" -> "exception"
                 [] OTHER -> "validation"
    /\ UNCHANGED <<store, issue, command, component, branch_name, release_branch,
                   perm_field, skip_update, snapshot, fetched, desc, extracted,
                   headers, rows, has_table, result, old_row, new_row,
                   new_table_node, new_desc, final_desc, splice_tag, puts,
                   issues, component_found, branch_matches, matching_row,
                   lookup_result>>
    /\ UNCHANGED callVars
    /\ UNCHANGED seqVars

\* issue = jira_get_issue(...), the checks on its fields, and after them
\* desc = fields.get("description"): desc stays unbound when a check ends the run.
\* The permission field is among the requested fields only when
\* --upsert-permission-field-id is given.
Fetch ==
    /\ pc = "fetch"
    /\ snapshot' = IF perm_field THEN issue ELSE [issue EXCEPT !.permission = JNull]
    /\ fetched' = store
    /\ desc' = IF RecheckDie(issue, perm_field) = "" THEN store ELSE JNull
    /\ died' = RecheckDie(issue, perm_field)
    /\ pc' = IF RecheckDie(issue, perm_field) = "" THEN "process" ELSE "exit"
    /\ UNCHANGED <<store, issue, command, component, branch_name, release_branch,
                   perm_field, skip_update, extracted, headers, rows, has_table,
                   result, old_row, new_row, new_table_node, new_desc, final_desc,
                   splice_tag, puts, issues, component_found, branch_matches,
                   matching_row, lookup_result>>
    /\ UNCHANGED callVars
    /\ UNCHANGED seqVars

\* decoding, upsert, rebuild and splice, up to the PUT; without a PUT
\* (SKIP_JIRA_UPDATE) the run goes on to the final hard validation
Process ==
    /\ pc = "process"
    /\ \E u \in {UpsertRun(desc, component, branch_name)} :
          /\ result' = u.result
          /\ extracted' = u.extracted
          /\ headers' = u.headers /\ rows' = u.rows /\ has_table' = u.has_table
          /\ old_row' = u.old_row /\ new_row' = u.new_row
          /\ new_table_node' = u.new_table_node
          /\ new_desc' = u.new_desc /\ final_desc' = u.final_desc
          /\ desc' = u.desc /\ splice_tag' = u.tag
          /\ pc' = IF u.result # "added" THEN "exit"
                   ELSE IF skip_update THEN FinalPc(snapshot) ELSE "put"
          /\ died' = IF u.result = "crash" THEN "exception"
                     ELSE IF u.result # "added" THEN u.result
                     ELSE IF skip_update THEN FinalDie(snapshot) ELSE ""
    /\ UNCHANGED <<store, issue, command, component, branch_name, release_branch,
                   perm_field, skip_update, snapshot, fetched, puts, issues,
                   component_found, branch_matches, matching_row, lookup_result>>
    /\ UNCHANGED callVars
    /\ UNCHANGED seqVars

\* requests.put(...) answered with a status below 300, then the final hard
\* validation
PutOk ==
    /\ pc = "put"
    /\ store' = final_desc
    /\ puts' = puts + 1
    /\ pc' = FinalPc(snapshot) /\ died' = FinalDie(snapshot)
    /\ UNCHANGED <<issue, command, component, branch_name, release_branch,
                   perm_field, skip_update, snapshot, fetched, desc, extracted,
                   headers, rows, has_table, result, old_row, new_row,
                   new_table_node, new_desc, final_desc, splice_tag, issues,
                   component_found, branch_matches, matching_row, lookup_result>>
    /\ UNCHANGED callVars
    /\ UNCHANGED seqVars

\* requests.put(...) answered with a status of 300 or more: die
PutFail ==
    /\ pc = "put"
    /\ puts' = puts + 1
    /\ pc' = "exit" /\ died' = "put_failed"
    /\ UNCHANGED <<store, issue, command, component, branch_name, release_branch,
                   perm_field, skip_update, snapshot, fetched, desc, extracted,
                   headers, rows, has_table, result, old_row, new_row,
                   new_table_node, new_desc, final_desc, splice_tag, issues,
                   component_found, branch_matches, matching_row, lookup_result>>
    /\ UNCHANGED callVars
    /\ UNCHANGED seqVars

\* search_result.get("issues", []) with n tickets: the issue, then tickets
\* without a description
SearchResult(d, n) == [i \in 1..n |-> IF i = 1 THEN d ELSE JNull]

\* argument validation of the lookup command (--project and --state given)
InvokeLookup(c, rb) ==
    /\ pc = "idle"
    /\ command' = "lookup"
    /\ component' = c /\ release_branch' = rb
    /\ IF c = <<>> \/ rb = <<>>
       THEN pc' = "exit" /\ died' = "usage"
       ELSE pc' = "lookup" /\ died' = ""
    /\ UNCHANGED <<store, issue, branch_name, perm_field, skip_update, snapshot,
                   fetched, desc, extracted, headers, rows, has_table, result,
                   old_row, new_row, new_table_node, new_desc, final_desc,
                   splice_tag, puts, issues, component_found, branch_matches,
                   matching_row, lookup_result>>
    /\ UNCHANGED callVars
    /\ UNCHANGED seqVars

\* the search returns n tickets, the issue first; then the rest of the
\* lookup command
Lookup(n) ==
    /\ pc = "lookup"
    /\ issues' = SearchResult(store, n)
    /\ \E u \in {LookupRun(SearchResult(store, n), component, release_branch)} :
          /\ died' = u.died
          /\ pc' = IF u.died = "" THEN "done" ELSE "exit"
          /\ lookup_result' = IF u.died = "" THEN "success" ELSE ""
          /\ desc' = u.desc
          /\ headers' = u.headers /\ rows' = u.rows /\ has_table' = u.has_table
          /\ component_found' = u.component_found
          /\ branch_matches' = u.branch_matches
          /\ matching_row' = u.matching_row
    /\ UNCHANGED <<store, issue, command, component, branch_name, release_branch,
                   perm_field, skip_update, snapshot, fetched, extracted, result,
                   old_row, new_row, new_table_node, new_desc, final_desc,
                   splice_tag, puts>>
    /\ UNCHANGED callVars
    /\ UNCHANGED seqVars

\* the commands, for a workflow that configures the permission field and an
\* issue nobody edits during the run
Next ==
    \/ \E c \in Components, b \in Branches, skip \in BOOLEAN : Invoke(c, b, skip, TRUE)
    \/ Validate
    \/ Fetch
    \/ Process
    \/ PutOk
    \/ PutFail
    \/ \E c \in Components, rb \in ReleaseBranches : InvokeLookup(c, rb)
    \/ \E n \in 0..MaxTickets : Lookup(n)

Spec == Init /\ [][Next]_vars

\* the upsert command with or without the permission field, on an issue
\* that is edited between the requests of the run
RaceInit ==
    /\ store \in RaceDocs
    /\ issue = F_ok
    /\ RunIdle
    /\ calls = <<>> /\ values = <<>>
    /\ origin = store /\ log = <<>>

RaceNext ==
    \/ \E c \in Components, b \in Branches, skip \in BOOLEAN, pf \in BOOLEAN :
          Invoke(c, b, skip, pf)
    \/ \E f \in IssueStates : IssueChange(f)
    \/ Validate
    \/ Fetch
    \/ Process
    \/ PutOk
    \/ PutFail

RaceSpec == RaceInit /\ [][RaceNext]_vars

(***************************************************************************)
(* Sequences of upsert runs on one issue                                   *)
(***************************************************************************)

\* the most runs of a sequence that write the description back
MaxRuns == 3

\* "SVC-B" between a form feed and a next-line character (U+0085)
S_SVC_B_ws == <<"\f","S","V","C","-","B","">>

S_A_comma_B == <<"A",",","B"," ">>

\* --component of the runs: a new key and a variant of it, a variant of the
\* key of scenario A, a key with a comma and a variant of it, a blank key
SeqComponents == {S_svc_b, S_SVC_B_ws, S_SVC_A_ws, S_a_comma_b, S_A_comma_B, S_ws}

TableMixedOrders ==
    build_adf_table(expected_headers,
                    <<<<S_x, S_svc_a, S_main, S_empty, S_empty>>,
                      <<S_2, <<"r","2">>, S_main, S_empty, S_empty>>>>)

TableNegOrder ==
    build_adf_table(expected_headers, <<<<S_neg3, S_svc_a, S_main, S_empty, S_empty>>>>)

\* the descriptions a sequence starts from: none, no table, scenario A, a
\* list root, a table without rows, Orders "x" and "2", Order "-3", and
\* a table that holds one key twice
SeqDocs ==
    { JNull, DocWrapper(<<Para(S_intro), Para(S_outro)>>),
      DocWrapper(<<TableA>>), JList(<<Para(S_intro), TableA>>),
      DocWrapper(<<Para(S_intro), build_adf_table(expected_headers, <<>>)>>),
      DocWrapper(<<TableMixedOrders>>), DocWrapper(<<TableNegOrder>>),
      DocWrapper(<<TableTwoBranches>>) }

SeqInit ==
    /\ store \in SeqDocs
    /\ issue = F_ok
    /\ RunIdle
    /\ calls = <<>> /\ values = <<>>
    /\ origin = store /\ log = <<>>

\* the run has ended and the action is started again on the same issue
NextRun ==
    /\ pc \in {"done", "exit"}
    /\ log' = IF puts > 0 /\ died # "put_failed" THEN Append(log, component) ELSE log
    /\ Len(log') < MaxRuns
    /\ pc' = "idle" /\ command' = "none"
    /\ component' = <<>> /\ branch_name' = <<>> /\ release_branch' = <<>>
    /\ perm_field' = FALSE /\ skip_update' = FALSE
    /\ snapshot' = NoFields /\ fetched' = JNull /\ desc' = JNull
    /\ extracted' = [headers |-> <<>>, rows |-> <<>>]
    /\ headers' = <<>> /\ rows' = <<>> /\ has_table' = FALSE
    /\ result' = "none" /\ old_row' = NoRow /\ new_row' = NoRow
    /\ new_table_node' = JNull /\ new_desc' = JNull /\ final_desc' = JNull
    /\ splice_tag' = "none"
    /\ puts' = 0 /\ died' = ""
    /\ issues' = <<>> /\ component_found' = FALSE /\ branch_matches' = FALSE
    /\ matching_row' = NoRow /\ lookup_result' = ""
    /\ UNCHANGED <<store, issue, origin>>
    /\ UNCHANGED callVars

SeqNext ==
    \/ \E c \in SeqComponents : Invoke(c, S_dev, FALSE, TRUE)
    \/ Validate
    \/ Fetch
    \/ Process
    \/ PutOk
    \/ PutFail
    \/ NextRun

SeqSpec == SeqInit /\ [][SeqNext]_vars

(***************************************************************************)
(* The functions on their own: builder, decoder, text extraction           *)
(***************************************************************************)

\* the longest chain of calls made on one input
MaxCalls == 3

S_B_N == <<"B"," ","N">>

\* header lists and cell texts for the builder: plain, trimmed text
HeaderLists == {<<>>, <<S_k>>, <<S_empty>>, <<S_k, S_B_N>>}

CellPool == {S_empty, S_x}

\* (h, r) pairs: up to MaxRows rows, every row as wide as h
HRInputs ==
    UNION { UNION { { [raises |-> FALSE, headers |-> h, data |-> r] :
                      r \in [1..n -> [1..Len(h) -> CellPool]] } :
                    n \in 0..MaxRows } :
            h \in HeaderLists }

\* rows for table nodes: no cell, header cells only, a header and a data
\* cell, data cells only, a cell that holds untrimmed text
RowPool ==
    { TableRowNode(<<>>),
      TableRowNode(<<make_table_header_cell(S_k)>>),
      TableRowNode(<<make_table_header_cell(S_k), make_table_header_cell(S_v)>>),
      TableRowNode(<<make_table_header_cell(S_k), make_table_cell(S_x)>>),
      TableRowNode(<<make_table_cell(S_x)>>),
      TableRowNode(<<make_table_cell(S_x), make_table_cell(S_y), make_table_cell(S_v2_ws)>>) }

\* table nodes of up to MaxRows rows drawn from RowPool
RaggedTables ==
    UNION { { Box(T_table, rs) : rs \in [1..n -> RowPool] } : n \in 0..MaxRows }

\* table nodes with a row that is a string, a number as content, a cell
\* that is a string, a cell whose content is a number, text that is null,
\* rows given as a mapping
MalformedTables ==
    { Box(T_table, <<JStr(S_junk)>>),
      JDict(<<"type", "content">>, <<JStr(T_table), JInt(5)>>),
      Box(T_table, <<TableRowNode(<<JStr(S_junk)>>)>>),
      Box(T_table, <<TableRowNode(<<JDict(<<"type", "content">>,
                                          <<JStr(T_tableCell), JInt(5)>>)>>)>>),
      Box(T_table, <<TableRowNode(<<Box(T_tableCell,
          <<JDict(<<"type", "text">>, <<JStr(T_text), JNull>>)>>)>>)>>),
      JDict(<<"type", "content">>,
            <<JStr(T_table), JDict(<<"k">>, <<JStr(S_v)>>)>>) }

\* values for extract_text: scalars, text nodes with and without a usable
\* text, nodes without a type, content of the wrong type, nested content
TextInputs ==
    { JNull, JStr(S_hi), JInt(7), JList(<<JStr(S_hi)>>), JDict(<<>>, <<>>),
      JDict(<<"type", "text">>, <<JStr(T_text), JStr(S_hi)>>),
      JDict(<<"type">>, <<JStr(T_text)>>),
      JDict(<<"type", "text">>, <<JStr(T_text), JInt(5)>>),
      JDict(<<"type", "text">>, <<JStr(T_text), JNull>>),
      JDict(<<"text">>, <<JStr(S_hi)>>),
      JDict(<<"text">>, <<JInt(5)>>),
      JDict(<<"type", "content">>, <<JStr(T_paragraph), JStr(S_hi)>>),
      JDict(<<"type", "text", "content">>,
            <<JStr(T_paragraph), JStr(S_x), JList(<<Para(S_y), JInt(5), JNull>>)>>),
      Box(T_paragraph, <<JDict(<<"type", "text">>, <<JStr(T_text), JInt(5)>>)>>),
      Para(S_hi) }

CallInputs == HRInputs \cup RaggedTables \cup MalformedTables \cup TextInputs \cup HandDocs

\* a JSON value, as opposed to a (headers, rows) result
IsJson(v) == "k" \in DOMAIN v

\* the value the next call is made on
LastValue == values[Len(values)]

CallInit ==
    /\ store = JNull
    /\ issue = F_ok
    /\ RunIdle
    /\ calls = <<>>
    /\ \E x \in CallInputs : values = <<x>>
    /\ origin = store /\ log = <<>>

\* build_adf_table(headers, rows) on a (headers, rows) pair
CallBuild ==
    /\ Len(calls) < MaxCalls
    /\ ~IsJson(LastValue) /\ ~LastValue.raises
    /\ calls' = Append(calls, "build_adf_table")
    /\ values' = Append(values, build_adf_table(LastValue.headers, LastValue.data))
    /\ UNCHANGED runVars
    /\ UNCHANGED seqVars

\* adf_table_to_rows(table_node) on a table node
CallDecode ==
    /\ Len(calls) < MaxCalls
    /\ IsJson(LastValue) /\ IsDict(LastValue) /\ TypeIs(LastValue, T_table)
    /\ calls' = Append(calls, "adf_table_to_rows")
    /\ values' = Append(values, adf_table_to_rows(LastValue))
    /\ UNCHANGED runVars
    /\ UNCHANGED seqVars

\* extract_text(node) on any value
CallExtractText ==
    /\ calls = <<>>
    /\ IsJson(LastValue)
    /\ calls' = <<"extract_text">>
    /\ values' = Append(values, extract_text(LastValue))
    /\ UNCHANGED runVars
    /\ UNCHANGED seqVars

\* walk_adf_tables and adf_table_to_rows(tables[0]) on any value, as main
\* does for a description
CallFindTable ==
    /\ calls = <<>>
    /\ IsJson(LastValue)
    /\ calls' = <<"find_table">>
    /\ values' = Append(values, DecodeDesc(LastValue))
    /\ UNCHANGED runVars
    /\ UNCHANGED seqVars

CallNext == CallBuild \/ CallDecode \/ CallExtractText \/ CallFindTable

CallSpec == CallInit /\ [][CallNext]_vars

(***************************************************************************)
(* Properties                                                              *)
(***************************************************************************)

\* the run is past decoding and upsert
Processed == pc \in {"exit", "put", "done"} /\ result \notin {"none", "usage_error"}

\* the upsert identity of a cell or an argument
KeyOf(str) == Lower(Strip(str))

\* h is the canonical schema up to case and surrounding whitespace
Canonical(h) ==
    /\ Len(h) = Len(expected_headers)
    /\ \A i \in 1..Len(h) : KeyOf(h[i]) = KeyOf(expected_headers[i])

\* the run decoded a table with the canonical schema
CanonicalTableDecoded == Processed /\ result # "crash" /\ Canonical(extracted.headers)

\* rows of the decoded table whose Component equals the supplied component
SameKeyRows ==
    { i \in 1..Len(extracted.rows) : KeyOf(extracted.rows[i][2]) = KeyOf(component) }

\* the arguments hold a key and no comma
PlainArgs ==
    /\ Strip(component) # <<>>
    /\ \A i \in 1..Len(component) : component[i] # ","
    /\ \A i \in 1..Len(branch_name) : branch_name[i] # ","

\* C1: on a canonical table, a non-blank component equal (case-insensitively,
\* after trimming) to the Component of an existing row ends in Conflict, the
\* first such row is reported, the rows are unchanged and no PUT is issued.
C1_RejectOnDuplicate ==
    (CanonicalTableDecoded /\ Strip(component) # <<>> /\ SameKeyRows # {})
        => /\ result = "conflict"
           /\ pc = "exit"
           /\ old_row = extracted.rows[CHOOSE i \in SameKeyRows :
                                          \A j \in SameKeyRows : i <= j]
           /\ rows = extracted.rows
           /\ puts = 0

\* C2: a component that is empty after trimming fails with EmptyKey before
\* the table is touched: no row is appended and nothing is written back.
C2_EmptyKeyRejected ==
    (pc \in {"exit", "put", "done"} /\ Strip(component) = <<>>)
        => /\ result = "usage_error"
           /\ new_row = NoRow
           /\ puts = 0

\* C3: an Added row has exactly five cells: the Order, the supplied component
\* trimmed, the supplied branch trimmed, and two empty cells.
C3_NewRowShape ==
    (Processed /\ result = "added" /\ Strip(component) # <<>>)
        => /\ Len(new_row) = 5
           /\ new_row[2] = Strip(component)
           /\ new_row[3] = Strip(branch_name)
           /\ new_row[4] = <<>>
           /\ new_row[5] = <<>>

\* C4 as stated: whenever a table node was found and its decoded headers are
\* not the canonical schema, the upsert fails with SchemaMismatch.
C4_Original ==
    (Processed /\ result # "crash" /\ PlainArgs
       /\ walk_adf_tables(fetched) # <<>> /\ ~Canonical(extracted.headers))
        => result = "schema_mismatch"

\* C4, amended: a decoded table with at least one header or row and headers
\* that are not canonical ends in SchemaMismatch with the rows untouched and
\* no PUT; canonical headers up to case and whitespace are accepted; a table
\* node that decodes to nothing is treated as absent and the upsert proceeds.
C4_SchemaCheck ==
    (Processed /\ result # "crash")
        => LET nonempty == extracted.headers # <<>> \/ extracted.rows # <<>>
           IN /\ (nonempty /\ ~Canonical(extracted.headers))
                    => /\ result = "schema_mismatch" /\ pc = "exit"
                       /\ headers = extracted.headers /\ rows = extracted.rows
                       /\ new_row = NoRow /\ puts = 0
              /\ (nonempty /\ Canonical(extracted.headers))
                    => result \in {"added", "conflict"}
              /\ ~nonempty => (result = "added" /\ headers = expected_headers)

C4_Witness ==
    /\ result = "schema_mismatch" /\ pc = "exit"
    /\ Len(extracted.headers) = 5 /\ extracted.rows # <<>>

RECURSIVE MagValue(_)
MagValue(m) ==
    IF m = <<>> THEN 0 ELSE MagValue(SubSeq(m, 1, Len(m) - 1)) * 10 + m[Len(m)]

\* the number that an int of a few digits stands for
NumOf(x) == IF x.neg THEN 0 - MagValue(x.mag) ELSE MagValue(x.mag)

\* the numeric values among the non-empty Order cells of the decoded rows
NumericOrders ==
    { NumOf(IntOf(extracted.rows[i][1])) :
        i \in { j \in 1..Len(extracted.rows) :
                  /\ extracted.rows[j][1] # <<>>
                  /\ IsIntLiteral(extracted.rows[j][1]) } }

SetMax(S) == CHOOSE x \in S : \A y \in S : y <= x

\* C5: the Order of an Added row is max(numeric Order cells) + 1 whenever some
\* Order cell is numeric, "0" for an empty table and "6" when the maximum is 5.
\* Stated for tables without a negative Order, where the clamp of the new
\* Order at 0 plays no part.
C5_NextOrder ==
    (CanonicalTableDecoded /\ result = "added" /\ PlainArgs
       /\ \A o \in NumericOrders : o >= 0)
        => /\ NumericOrders # {} => new_row[1] = StrOfInt(SetMax(NumericOrders) + 1)
           /\ extracted.rows = <<>> => new_row[1] = S_0
           /\ (NumericOrders # {} /\ SetMax(NumericOrders) = 5)
                => new_row[1] = <<"6">>

\* the decoded table has rows and none of them has a numeric Order
NoNumericOrder ==
    /\ CanonicalTableDecoded /\ result = "added"
    /\ extracted.rows # <<>>
    /\ NumericOrders = {}

\* C6 as stated: without any numeric Order the new Order is row_count - 1,
\* clamped at 0.
C6_Original ==
    (NoNumericOrder /\ PlainArgs) => new_row[1] = StrOfInt(Max(Len(extracted.rows) - 1, 0))

\* C6, amended: without any numeric Order the new Order is row_count when
\* some Order cell is non-empty, and 0 when every Order cell is empty.
C6_FallbackOrder ==
    NoNumericOrder
        => IF \E i \in 1..Len(extracted.rows) : extracted.rows[i][1] # <<>>
           THEN new_row[1] = StrOfInt(Len(extracted.rows))
           ELSE new_row[1] = S_0

C6_Witness ==
    /\ NoNumericOrder
    /\ Len(extracted.rows) = 2
    /\ extracted.rows[1][1] = S_x /\ extracted.rows[2][1] = S_empty

\* the first table of the description that is written back, decoded
WrittenTable == adf_table_to_rows(walk_adf_tables(final_desc)[1])

\* C7: an Added upsert keeps every decoded row, in place, and the headers;
\* the new row is last and the table grows by one row, in the variables and
\* in the description that is written back.
C7_AddedFrame ==
    (Processed /\ result = "added")
        => /\ Len(rows) = Len(extracted.rows) + 1
           /\ \A i \in 1..Len(extracted.rows) : rows[i] = extracted.rows[i]
           /\ rows[Len(rows)] = new_row
           /\ extracted.headers # <<>> => headers = extracted.headers
           /\ ~WrittenTable.raises
           /\ WrittenTable.headers = headers /\ WrittenTable.data = rows
           /\ (fetched = DocWrapper(<<TableA>>) /\ component = S_svc_b
                 /\ branch_name = S_dev)
                => rows = <<RowA, <<S_1, S_svc_b, S_dev, S_empty, S_empty>>>>

C7_Witness ==
    /\ result = "added" /\ pc = "done" /\ puts = 1
    /\ fetched = DocWrapper(<<TableA>>) /\ component = S_svc_b /\ branch_name = S_dev
    /\ store = final_desc

RECURSIVE ContainsTable(_)
\* some node of the tree is a table node
ContainsTable(node) ==
    \/ IsDict(node) /\ TypeIs(node, T_table)
    \/ /\ node.k \in {"dict", "list"}
       /\ \E i \in 1..Len(node.vals) : ContainsTable(node.vals[i])

RECURSIVE FirstTablePath(_)
\* the child indexes leading from the root to the first table node in
\* pre-order, for a tree with ContainsTable
FirstTablePath(node) ==
    IF IsDict(node) /\ TypeIs(node, T_table) THEN <<>>
    ELSE LET i == CHOOSE c \in 1..Len(node.vals) :
                      /\ ContainsTable(node.vals[c])
                      /\ \A b \in 1..(c - 1) : ~ContainsTable(node.vals[b])
         IN <<i>> \o FirstTablePath(node.vals[i])

RECURSIVE ReplaceAt(_, _, _)
\* the tree with the node at `path` exchanged for `new` and nothing else changed
ReplaceAt(node, path, new) ==
    IF path = <<>> THEN new
    ELSE [node EXCEPT !.vals[path[1]] = ReplaceAt(node.vals[path[1]], Tail(path), new)]

RECURSIVE OccursIn(_, _)
\* t is the tree or one of its subtrees
OccursIn(t, node) == t = node \/ \E i \in 1..Len(node.vals) : OccursIn(t, node.vals[i])

RECURSIVE Nodes(_), NodesOfAll(_)
\* every node of the tree, in pre-order
Nodes(node) == <<node>> \o NodesOfAll(node.vals)

NodesOfAll(items) ==
    IF items = <<>> THEN <<>> ELSE Nodes(items[1]) \o NodesOfAll(Tail(items))

RECURSIVE OutsideSubtrees(_, _)
\* the subtrees hanging off `path`: at every node on the path, the children
\* before and after the one the path takes, in pre-order.  Together they
\* hold every node that is neither on the path nor below its end.
OutsideSubtrees(node, path) ==
    IF path = <<>> THEN <<>>
    ELSE SubSeq(node.vals, 1, path[1] - 1)
           \o OutsideSubtrees(node.vals[path[1]], Tail(path))
           \o SubSeq(node.vals, path[1] + 1, Len(node.vals))

RECURSIVE OccurInOrder(_, _, _, _)
\* a[i..] occur in b after position prev, in the same relative order
OccurInOrder(a, b, i, prev) ==
    IF i > Len(a) THEN TRUE
    ELSE LET cand == { j \in (prev + 1)..Len(b) : b[j] = a[i] }
         IN /\ cand # {}
            /\ OccurInOrder(a, b, i + 1, CHOOSE j \in cand : \A h \in cand : j <= h)

\* the elements of a occur in b, in the same relative order
IsSubsequence(a, b) == OccurInOrder(a, b, 1, 0)

\* the run spliced a new table into a description that held a table
SplicedOverTable ==
    Processed /\ result = "added" /\ PlainArgs /\ ContainsTable(fetched)

\* C8: when the tree holds a table, the tree that is written back holds the
\* input tree with exactly its first table node (pre-order) exchanged for the
\* new table: same position, same siblings, every other node as it was.
C8_ReplaceFirstInPlace ==
    SplicedOverTable
        => OccursIn(ReplaceAt(fetched, FirstTablePath(fetched), new_table_node),
                    final_desc)

\* C9: whatever the root is, every node of the input outside the first
\* table's subtree is in the tree that is written back, unchanged and in the
\* same relative order.
C9_UnrelatedContentKept ==
    SplicedOverTable
        => IsSubsequence(OutsideSubtrees(fetched, FirstTablePath(fetched)),
                         Nodes(final_desc))

\* a composite node: a keyed mapping or an ordered sequence
IsComposite(v) == IsDict(v) \/ IsList(v)

\* the root has a top-level ordered content list
HasContentList(v) == IsDict(v) /\ HasKey(v, "content") /\ IsList(Get(v, "content"))

\* the tree with the new table appended as the last element of its
\* top-level content list, everything else as it was
AppendedToContent(tree, new_table) ==
    /\ new_desc.k = "dict" /\ new_desc.keys = tree.keys
    /\ \A i \in 1..Len(tree.keys) :
          IF tree.keys[i] = "content"
          THEN new_desc.vals[i] = JList(tree.vals[i].vals \o <<new_table>>)
          ELSE new_desc.vals[i] = tree.vals[i]

\* an upsert that added a row to a description without any table node
AddedWithoutTable == Processed /\ result = "added" /\ ~ContainsTable(fetched)

\* C10: without any table in the tree, (1) an absent tree or one that is
\* not a composite node gives a new doc holding only the new table; (2) any
\* other tree with a top-level content list gets the new table appended as
\* the last element of that list; (3) any other tree gives a new doc holding
\* [tree, new table].  In each case exactly one table is added.
C10_NoTableFallback ==
    AddedWithoutTable
        => /\ (fetched = JNull \/ ~IsComposite(fetched))
                => new_desc = DocWrapper(<<new_table_node>>)
           /\ (IsComposite(fetched) /\ HasContentList(fetched))
                => AppendedToContent(fetched, new_table_node)
           /\ (IsComposite(fetched) /\ ~HasContentList(fetched))
                => new_desc = DocWrapper(<<fetched, new_table_node>>)
           /\ Len(walk_adf_tables(new_desc)) = 1
           /\ walk_adf_tables(new_desc)[1] = new_table_node

\* the chain does hold of every root that is absent, a scalar or a
\* non-empty mapping
NoTableFallbackInMappings ==
    (AddedWithoutTable /\ ~IsList(fetched) /\ fetched # JDict(<<>>, <<>>))
        => /\ (fetched = JNull \/ ~IsComposite(fetched))
                => new_desc = DocWrapper(<<new_table_node>>)
           /\ HasContentList(fetched) => AppendedToContent(fetched, new_table_node)
           /\ (IsDict(fetched) /\ ~HasContentList(fetched))
                => new_desc = DocWrapper(<<fetched, new_table_node>>)
           /\ Len(walk_adf_tables(new_desc)) = 1
           /\ walk_adf_tables(new_desc)[1] = new_table_node

\* a sequence root without a table is left out of the new doc
SequenceRootDropped ==
    /\ AddedWithoutTable
    /\ fetched = JList(<<Para(S_intro)>>)
    /\ new_desc = DocWrapper(<<new_table_node>>)

(***************************************************************************)
(* Properties of the builder and the decoder on their own (CallSpec)       *)
(***************************************************************************)

\* the builder was applied to a (headers, rows) pair and the result decoded
BuiltThenDecoded == calls = <<"build_adf_table", "adf_table_to_rows">>

\* C11: for any header list h and any list r of rows of trimmed plain text,
\* each as wide as h, decoding the table node the builder makes of them
\* returns exactly (h, r).
C11_RoundTrip == BuiltThenDecoded => values[3] = values[1]

\* the round trip does hold of every header list with at least one header
RoundTripWithHeaders ==
    (BuiltThenDecoded /\ values[1].headers # <<>>) => values[3] = values[1]

\* the builder's header row of no cells comes back as a data row
RoundTripLost ==
    /\ BuiltThenDecoded
    /\ values[1].headers = <<>> /\ values[1].data = <<>>
    /\ values[3].headers = <<>> /\ values[3].data = << <<>> >>

\* C12: on any JSON-shaped value, however malformed, extract_text returns a
\* string, and locating and decoding the table returns (headers, rows) and
\* raises no error, also for a table node handed to the decoder directly.
C12_ExtractionNeverFails ==
    /\ calls = <<"extract_text">> => IsStr(values[2])
    /\ calls \in {<<"find_table">>, <<"adf_table_to_rows">>} => ~values[2].raises

\* a table node was decoded, and the decoder returned
TableDecoded == calls = <<"adf_table_to_rows">> /\ ~values[2].raises

\* the rows of a table node, and the cells of a row, as the decoder visits them
RowsOf(t) == IterOrEmpty(Get(t, "content")).items

CellsOf(row) == IterOrEmpty(Get(row, "content")).items

\* the trimmed text of each cell of a row
RowTexts(row) == [i \in 1..Len(CellsOf(row)) |-> CellText(CellsOf(row)[i]).s]

AllHeaderCells(row) ==
    \A i \in 1..Len(CellsOf(row)) : TypeIs(CellsOf(row)[i], T_tableHeader)

\* the first row is the header row, by the claim as stated: every one of
\* its cells is header-typed
HeaderByCells(t) == RowsOf(t) # <<>> /\ AllHeaderCells(RowsOf(t)[1])

\* ... and by the code: it also has a cell
HeaderByCode(t) == HeaderByCells(t) /\ CellsOf(RowsOf(t)[1]) # <<>>

\* Col1..ColW
PositionalNames(w) == [i \in 1..w |-> <<"C","o","l">> \o StrOfInt(i)]

\* with hdr saying whether row 0 is the header row: a header row gives the
\* headers and no data row, every other row is a data row, in order, and
\* without a header row the headers are positional
HeaderRule(t, out, hdr) ==
    LET off == IF hdr THEN 1 ELSE 0
    IN /\ Len(out.data) = Len(RowsOf(t)) - off
       /\ \A j \in 1..Len(out.data) :
             SubSeq(out.data[j], 1, Len(CellsOf(RowsOf(t)[j + off])))
                 = RowTexts(RowsOf(t)[j + off])
       /\ hdr => SubSeq(out.headers, 1, Len(CellsOf(RowsOf(t)[1])))
                     = RowTexts(RowsOf(t)[1])
       /\ ~hdr => out.headers = PositionalNames(Len(out.headers))

\* C13: row i is the header row iff i = 0 and every one of its cells is
\* header-typed; then it contributes no data row.  Every other row is a
\* data row, and without a header row the headers are Col1..ColW.
C13_Original == TableDecoded => HeaderRule(values[1], values[2], HeaderByCells(values[1]))

\* what the decoder does: row 0 is the header row iff it has at least one
\* cell and every one of its cells is header-typed
HeaderRuleByCode ==
    TableDecoded => HeaderRule(values[1], values[2], HeaderByCode(values[1]))

\* a first row without cells comes back as a data row
EmptyFirstRowIsData ==
    /\ TableDecoded
    /\ RowsOf(values[1]) # <<>>
    /\ CellsOf(RowsOf(values[1])[1]) = <<>>
    /\ values[2].data # <<>> /\ values[2].data[1] = <<>>

\* the widest row of a table node, 0 without rows
WidthOf(t) == SetMax({0} \cup {Len(CellsOf(RowsOf(t)[j])) : j \in 1..Len(RowsOf(t))})

\* cells is texts, then empty strings up to width w
PaddedFrom(cells, texts, w) ==
    /\ Len(cells) = w
    /\ \A i \in 1..w : cells[i] = IF i <= Len(texts) THEN texts[i] ELSE <<>>

\* C14: headers and every row have the length W = max(header-row length,
\* longest data-row length, 0); each is the decoded texts of its row, in
\* order, right-padded with empty strings; without a header row the headers
\* are exactly Col1..ColW.
C14_WidthInvariant ==
    TableDecoded =>
        LET t == values[1]
            out == values[2]
            off == IF HeaderByCode(t) THEN 1 ELSE 0
        IN /\ Len(out.headers) = WidthOf(t)
           /\ Len(out.data) = Len(RowsOf(t)) - off
           /\ \A j \in 1..Len(out.data) :
                 PaddedFrom(out.data[j], RowTexts(RowsOf(t)[j + off]), WidthOf(t))
           /\ HeaderByCode(t) => PaddedFrom(out.headers, RowTexts(RowsOf(t)[1]), WidthOf(t))
           /\ ~HeaderByCode(t) => out.headers = PositionalNames(WidthOf(t))

\* a header row of two cells over a data row of three: the headers are padded
C14_Witness ==
    /\ TableDecoded
    /\ values[2].headers = <<S_k, S_v, S_empty>>
    /\ values[2].data = << <<S_x, S_y, <<"v","2">>>> >>

\* a table node was decoded, the result re-encoded and decoded again
DecodedTwice == calls = <<"adf_table_to_rows", "build_adf_table", "adf_table_to_rows">>

\* C15: for any table node t, decoding t to (h, r), re-encoding (h, r) with
\* the builder and decoding again yields the same (h, r): no row is added,
\* removed or changed.
C15_Idempotent == DecodedTwice => values[4] = values[2]

\* it does hold of every table node that decodes to at least one column
IdempotentWithColumns ==
    (DecodedTwice /\ values[2].headers # <<>>) => values[4] = values[2]

\* a table node without rows gains a row of no cells
IdempotenceLost ==
    /\ DecodedTwice
    /\ Len(RowsOf(values[1])) = 0
    /\ values[2].data = <<>> /\ values[4].data = << <<>> >>

(***************************************************************************)
(* Properties of the commands (Spec, RaceSpec)                             *)
(***************************************************************************)

\* an upsert of a non-blank component found a description without any table
NoTableUpsert ==
    Processed /\ command = "upsert" /\ ~ContainsTable(fetched) /\ Strip(component) # <<>>

\* the written table is the canonical headers over the one row given
OneRowTable(t, comp, br) ==
    /\ ~t.raises
    /\ t.headers = expected_headers
    /\ t.data = << <<S_0, comp, br, S_empty, S_empty>> >>

\* C16: if the fetched description is absent or holds no table node, an
\* upsert of any valid component produces a description whose first table
\* (pre-order) decodes to the canonical five headers and exactly one data
\* row, with Order "0" and the supplied component and branch.
C16_ScenarioC ==
    NoTableUpsert
        => /\ result = "added"
           /\ Len(walk_adf_tables(final_desc)) >= 1
           /\ OneRowTable(WrittenTable, Strip(component), Strip(branch_name))

\* it does hold of arguments without a comma
ScenarioCPlain ==
    (NoTableUpsert /\ PlainArgs)
        => /\ result = "added"
           /\ Len(walk_adf_tables(final_desc)) >= 1
           /\ OneRowTable(WrittenTable, Strip(component), Strip(branch_name))

\* an absent description and a plain component: the table is written back
ScenarioCReached ==
    /\ NoTableUpsert /\ PlainArgs /\ fetched = JNull
    /\ pc = "done" /\ puts = 1 /\ store = final_desc
    /\ OneRowTable(WrittenTable, Strip(component), Strip(branch_name))

\* the lookup command ran to its end, past argument validation
LookupEnded == command = "lookup" /\ pc \in {"done", "exit"} /\ died # "usage"

\* the rows of the first table of a ticket's description, none without a table
TicketRows(d) ==
    IF walk_adf_tables(d) = <<>> THEN <<>>
    ELSE adf_table_to_rows(walk_adf_tables(d)[1]).data

\* the decoding of the ticket's first table raises
TicketRaises(d) ==
    walk_adf_tables(d) # <<>> /\ adf_table_to_rows(walk_adf_tables(d)[1]).raises

\* row r has the requested component, up to case and surrounding whitespace
HasComponent(r) == Len(r) >= 2 /\ KeyOf(r[2]) = KeyOf(component)

\* row r has the requested release branch, up to surrounding whitespace
HasBranch(r) == Len(r) >= 3 /\ Strip(r[3]) = Strip(release_branch)

\* the rows with the requested component
ComponentRows(rs) == { i \in 1..Len(rs) : HasComponent(rs[i]) }

\* the first row with the requested component has the requested branch
FirstRowAgrees(rs) ==
    /\ ComponentRows(rs) # {}
    /\ \E i \in ComponentRows(rs) :
          /\ \A j \in ComponentRows(rs) : i <= j
          /\ HasBranch(rs[i])

\* C17: the lookup command reports success (lookup_result = success and a
\* normal return) only when the search returns exactly one ticket and, in
\* that ticket's first table, the first row whose Component equals the
\* requested component (case-insensitively, trimmed) has a Branch Name equal
\* to the requested release branch (trimmed); with no ticket, several
\* tickets, the component not found, or found with another branch, it ends
\* through die and lookup_result = success is never written.
C17_LookupResult ==
    LookupEnded
        => /\ (pc = "done") = (lookup_result = "success")
           /\ (pc = "exit") = (died # "" /\ lookup_result = "")
           /\ lookup_result = "success"
                => /\ Len(issues) = 1
                   /\ ~TicketRaises(issues[1])
                   /\ FirstRowAgrees(TicketRows(issues[1]))
           /\ Len(issues) = 0 => died = "no_ticket"
           /\ Len(issues) > 1 => died = "multiple_tickets"
           /\ (Len(issues) = 1 /\ ~TicketRaises(issues[1]))
                => /\ ComponentRows(TicketRows(issues[1])) = {}
                        => died = "component_not_found"
                   /\ (ComponentRows(TicketRows(issues[1])) # {}
                          /\ ~FirstRowAgrees(TicketRows(issues[1])))
                        => died = "branch_mismatch"
                   /\ FirstRowAgrees(TicketRows(issues[1])) => pc = "done"

\* success on a component and a branch that match only after trimming and
\* lower-casing
C17_Witness ==
    /\ LookupEnded /\ pc = "done" /\ lookup_result = "success"
    /\ Len(issues) = 1
    /\ matching_row # NoRow
    /\ matching_row[2] # component /\ KeyOf(matching_row[2]) = KeyOf(component)
    /\ matching_row[3] # release_branch

\* the four error scenarios
LookupNoTicket == LookupEnded /\ pc = "exit" /\ died = "no_ticket"

LookupMultipleTickets == LookupEnded /\ pc = "exit" /\ died = "multiple_tickets"

LookupComponentNotFound ==
    LookupEnded /\ pc = "exit" /\ died = "component_not_found" /\ Len(rows) > 0

\* the first row with the component is on dev, a later one on the branch asked for
LookupBranchMismatch ==
    /\ LookupEnded /\ pc = "exit" /\ died = "branch_mismatch" /\ component_found
    /\ \E i \in ComponentRows(rows) : HasBranch(rows[i])

\* the value of the permission field of the snapshot: the "value" of a
\* select-list option, else the field itself
SnapshotPermission ==
    IF IsDict(snapshot.permission) THEN Get(snapshot.permission, "value")
    ELSE snapshot.permission

\* the snapshot the description was taken from passes the checks that main
\* repeats on it: the permission field (when configured) and the status
SnapshotRechecked ==
    /\ perm_field => /\ IsStr(SnapshotPermission)
                     /\ KeyOf(SnapshotPermission.s) = S_allowed
    /\ \A i \in 1..Len(blocked_statuses) :
          Upper(snapshot.status) # Upper(blocked_statuses[i])

\* a die before the write-back: in the validation or in the repeated checks
DiedBeforeWrite ==
    died \in {"usage", "validation", "permission_missing", "permission_denied",
              "status_blocked"}

\* C18: in the upsert command a description write-back (PUT) is issued only
\* when the snapshot the description was taken from passes all prerequisite
\* checks: issue type as expected, permission field (when configured)
\* 'allowed' case-insensitively, status not blocked; also when the issue
\* changes between the validation fetch and the processing fetch.  A die
\* before the write precludes the write.
C18_WriteOnlyOnCheckedSnapshot ==
    /\ (command = "upsert" /\ puts > 0)
          => (snapshot.issuetype = issuetype_arg /\ SnapshotRechecked)
    /\ DiedBeforeWrite => puts = 0

\* what does hold: the write-back is issued only on a snapshot that passes
\* the permission and status checks, and never after an earlier die
WriteOnlyOnRecheckedSnapshot ==
    /\ (command = "upsert" /\ puts > 0) => SnapshotRechecked
    /\ DiedBeforeWrite => puts = 0

\* the issue type changed between the two fetches: written, then died
WrittenOnWrongType ==
    /\ command = "upsert" /\ puts = 1 /\ store = final_desc
    /\ snapshot.issuetype # issuetype_arg
    /\ pc = "exit" /\ died = "wrong_type"

\* the splicer was called: the upsert added a row and rebuilt the table
Spliced == Processed /\ command = "upsert" /\ result = "added"

\* C19: replace_or_append_first_table operates on a copy of the description:
\* the tree passed in as the original description is unchanged after the
\* call in every branch (replace, append, synthesize).
C19_OriginalUnchanged == Spliced => desc = fetched

\* it does hold where a new doc is synthesized
SynthesizeKeepsOriginal ==
    (Spliced /\ splice_tag \in {"doc_wrapper", "fallback"}) => desc = fetched

\* replace and append leave their result in the original: it is the new tree
OriginalOverwritten ==
    (Spliced /\ splice_tag \in {"replaced", "appended"})
        => (desc = new_desc /\ desc # fetched)

\* scenario A: after the call the original holds the table with two rows
OriginalReplaced ==
    /\ Spliced /\ splice_tag = "replaced"
    /\ fetched = DocWrapper(<<TableA>>)
    /\ desc = DocWrapper(<<new_table_node>>) /\ Len(rows) = 2

RECURSIVE NodeAt(_, _)
\* the node that the child indexes of `path` lead to
NodeAt(node, path) ==
    IF path = <<>> THEN node ELSE NodeAt(node.vals[path[1]], Tail(path))

\* the extractor decoded the node at the first pre-order table position, and
\* the splicer's result is the tree with the node at that position, and no
\* other, exchanged for the new table
SameTarget ==
    /\ walk_adf_tables(fetched) # <<>>
    /\ walk_adf_tables(fetched)[1] = NodeAt(fetched, FirstTablePath(fetched))
    /\ splice_tag = "replaced"
    /\ new_desc = ReplaceAt(fetched, FirstTablePath(fetched), new_table_node)

\* C20: for every tree that holds at least one table, the table node that
\* walk_adf_tables puts first (the one that is decoded) is the node, at the
\* same pre-order position, that replace_or_append_first_table replaces,
\* also when tables are nested in tables or reached through mapping values;
\* exactly one node is replaced per call.
C20_SameTarget == (Spliced /\ ContainsTable(fetched)) => SameTarget

\* it does hold of every tree whose root is a mapping
SameTargetInMappings ==
    (Spliced /\ ContainsTable(fetched) /\ IsDict(fetched)) => SameTarget

\* a table nested in the first table's cell: the outer table is the target
SameTargetNested ==
    /\ Spliced /\ SameTarget
    /\ fetched = DocWrapper(<<TableNested, Para(S_outro)>>)
    /\ Len(walk_adf_tables(fetched)) = 2

\* a sequence as the root: the table was decoded, and a new doc came back
TargetMissedInSequence ==
    /\ Spliced /\ ContainsTable(fetched) /\ IsList(fetched)
    /\ splice_tag = "doc_wrapper"
    /\ new_desc = DocWrapper(<<new_table_node>>)

\* the table is a mapping value met before the content list
SameTargetInValue ==
    /\ Spliced /\ SameTarget
    /\ FirstTablePath(fetched) = <<2>> /\ fetched.keys[2] = "attrs"

(***************************************************************************)
(* Properties of sequences of runs (SeqSpec)                               *)
(***************************************************************************)

\* (headers, rows) of the first table of a description, ([], []) without one
TableIn(d) ==
    IF walk_adf_tables(d) = <<>> THEN [raises |-> FALSE, headers |-> <<>>, data |-> <<>>]
    ELSE adf_table_to_rows(walk_adf_tables(d)[1])

\* the Component keys of the rows are pairwise distinct
DistinctKeys(rs) ==
    \A i, j \in 1..Len(rs) :
        (i # j /\ Len(rs[i]) >= 2 /\ Len(rs[j]) >= 2)
            => KeyOf(rs[i][2]) # KeyOf(rs[j][2])

\* the sequence started from a document with no table, or with a canonical
\* table whose Component keys are pairwise distinct
DistinctAtStart ==
    \/ ~ContainsTable(origin)
    \/ /\ ~TableIn(origin).raises
       /\ Canonical(TableIn(origin).headers)
       /\ DistinctKeys(TableIn(origin).data)

\* the component of this run was written back by an earlier run, in some
\* case or whitespace variant
AddedEarlier == \E k \in 1..Len(log) : KeyOf(log[k]) = KeyOf(component)

\* C21: starting from a document with no table or with a canonical table
\* whose Component keys are pairwise distinct, after any sequence of upsert
\* runs, each on the document the last successful one wrote, the Component
\* keys of the table are pairwise distinct, and upserting again a component
\* that was Added earlier, in any case or whitespace variant, ends in
\* Conflict.
C21_KeysStayDistinct ==
    DistinctAtStart
        => /\ ~TableIn(store).raises
           /\ DistinctKeys(TableIn(store).data)
           /\ (Processed /\ AddedEarlier)
                => (result = "conflict" /\ pc = "exit" /\ puts = 0)

\* two keys were added, and the third run asks for a variant of one of them
C21_Witness ==
    /\ DistinctAtStart /\ ContainsTable(origin)
    /\ Len(log) = 2 /\ Len(TableIn(store).data) = 3
    /\ Processed /\ result = "conflict"
    /\ AddedEarlier /\ \A k \in 1..Len(log) : log[k] # component

\* a start with one key twice: the precondition is needed
KeysTwiceAtStart == ~DistinctAtStart /\ ~DistinctKeys(TableIn(store).data)

\* the Order cells of the rows are pairwise distinct
DistinctOrders(rs) ==
    \A i, j \in 1..Len(rs) :
        (i # j /\ rs[i] # <<>> /\ rs[j] # <<>>) => rs[i][1] # rs[j][1]

\* the Order of the new row is the Order cell of no decoded row
FreshOrder ==
    \A i \in 1..Len(extracted.rows) :
        extracted.rows[i] # <<>> => extracted.rows[i][1] # new_row[1]

\* C22: on the Added path the Order given to the new row differs from the
\* Order cell of every existing row, whatever the Order cells of the
\* canonical table hold (numeric, negative, empty, non-numeric, a mixture),
\* so the Orders stay pairwise distinct after any sequence of upserts on a
\* table whose Orders were distinct.
C22_OrderStaysUnique ==
    /\ (CanonicalTableDecoded /\ result = "added") => FreshOrder
    /\ (~TableIn(origin).raises /\ Canonical(TableIn(origin).headers)
          /\ DistinctOrders(TableIn(origin).data))
        => (~TableIn(store).raises => DistinctOrders(TableIn(store).data))

\* it does hold of tables whose Order cells are all numeric or empty, where
\* int() does not raise
FreshOrderWithoutFallback ==
    (CanonicalTableDecoded /\ result = "added"
       /\ \A i \in 1..Len(extracted.rows) :
             extracted.rows[i][1] = <<>> \/ IsIntLiteral(extracted.rows[i][1]))
        => FreshOrder

\* Orders "x" and "2": the new row is given "2" again, and it is written back
OrderGivenTwice ==
    /\ origin = DocWrapper(<<TableMixedOrders>>)
    /\ log = <<>> /\ pc = "done" /\ result = "added" /\ puts = 1
    /\ new_row[1] = S_2 /\ extracted.rows[2][1] = S_2
    /\ ~DistinctOrders(TableIn(store).data)

\* Order "-3": the new rows are given "0" and "1"
OrdersAfterNegative ==
    /\ origin = DocWrapper(<<TableNegOrder>>)
    /\ Len(log) = 2 /\ pc = "idle"
    /\ Len(TableIn(store).data) = 3
    /\ TableIn(store).data[2][1] = S_0 /\ TableIn(store).data[3][1] = S_1

====
